---- MODULE Spec2Model ----
(***************************************************************************)
(* webdantic: the DOM snapshot collector of scripts/dump_selectors.py      *)
(* (the JavaScript JS_COLLECT_SELECTOR_TREE that runs in the page, and the *)
(* Python coroutine dump_selectors that drives it).                        *)
(*                                                                         *)
(* Strings are sequences of one-character strings, so that toLowerCase,    *)
(* trim, CSS.escape, join and number formatting are computed character by  *)
(* character.  JavaScript null is the value NULL.                          *)
(***************************************************************************)
EXTENDS Integers, Sequences, FiniteSets, TLC

VARIABLES
    \* ---- dump_selectors (Python) ----
    pc,           \* position of the coroutine dump_selectors
    connected,    \* Browser._connected of the browser dump_selectors connected
    tabOpen,      \* the page opened by window.new_tab() is open
    exc,          \* the exception in flight / raised to the caller ("none" if none)
    excMsg,       \* str() of that exception
    excCause,     \* the type of its __cause__ ("none" if it has none)
    root,         \* local `root`: the ElementNode tree (NoTree before line 637)
    total,        \* local `total` (line 642), -1 before it is computed
    dump,         \* the SelectorDump returned (NoDump if none)
    \* ---- JS_COLLECT_SELECTOR_TREE (in the page) ----
    dom,          \* the document the script runs on
    globalIndex,  \* `let globalIndex` of the running script
    stack,        \* the call stack of walk(): frames [el, i]
    out,          \* the descriptors built so far, by element
    \* ---- the element functions applied to one element ----
    pel,          \* the element
    selRes,       \* getSimpleSelector(pel), once applied
    clickRes,     \* isClickable(pel), once applied
    visRes,       \* isVisible(pel), once applied
    \* ---- save_selector_dump ----
    saveUrl,            \* dump.url, the URL of the record given to save_selector_dump
    dumpDir,            \* str(dump_dir), the directory given to it
    saveRes,            \* what it returned or raised, once called
    \* ---- page.evaluate(JS_COLLECT_SELECTOR_TREE) called again and again ----
    prevTree,           \* the tree the previous run of the script returned (NoTree if none)
    runs,               \* the runs of the script that have returned
    \* ---- captures whose steps interleave ----
    capPage,            \* the page each capture runs its script in
    pageDom,            \* the document loaded in each page
    capPc,              \* the position of each capture
    capIndex,           \* the globalIndex counters
    capStack,           \* the call stack of walk() of each capture
    capOut,             \* the descriptors each capture has built
    \* ---- Browser.connect, Browser.disconnect, async with, get_window(s) ----
    bpc,                \* the position of the caller of Browser.connect
    port,               \* the port given to Browser.connect
    faults,             \* the calls of the Playwright driver that raise
    b_playwright,       \* Browser._playwright is set
    b_browser,          \* Browser._browser is set
    b_connected,        \* Browser._connected
    closeCalls,         \* awaits of the driver's browser.close()
    stopCalls,          \* awaits of the driver's playwright.stop()
    brExc,              \* the exception in flight / raised to the caller
    brRet,              \* Browser.connect has returned a Browser
    via,                \* how disconnect was reached: "direct", "with" or "none"
    disconnects,        \* calls of Browser.disconnect that have returned
    contexts,           \* self._browser.contexts: the contexts of the driver's browser
    winRes,             \* the last get_window or get_windows call and what it returned or raised
    \* ---- Window.get_tab, Window.get_active_tab, Window.new_tab ----
    ctxPages,           \* context.pages of the window: the Playwright pages, in order
    tabRes,             \* the index given to the last get_tab and what it returned or raised
    activeRes,          \* the pages the last get_active_tab read and what it returned or raised
    ntRes,              \* the url given to the last new_tab, the pages before it and what it returned or raised
    \* ---- Tab.get_page, Tab.navigate, Tab.activate ----
    t_playwright_page,  \* Tab._playwright_page of each Tab
    t_page_wrapper,     \* Tab._page_wrapper of each Tab: a place in pageHeap (0: None)
    pageHeap,           \* the Page objects made so far, in the order they were made
    got,                \* what the calls of get_page of each Tab returned: places in pageHeap
    pwUrl,              \* the url of each Playwright page
    tabExc,             \* what the last navigate or activate raised
    \* ---- a public operation of Page, Tab, Window or Selector whose driver call may fail ----
    opRes,              \* the last operation called and the exception it raised, once one was called
    \* ---- page.evaluate(JS_COLLECT_SELECTORS), the flat collector ----
    flatPc,             \* the position of the flat script: "idle", "map", "done" or "thrown"
    flatList,           \* elements: what document.querySelectorAll("*") returned
    flatOut             \* the descriptors the map callback has returned

vars == <<pc, connected, tabOpen, exc, excMsg, excCause, root, total, dump,
          dom, globalIndex, stack, out, pel, selRes, clickRes, visRes,
          saveUrl, dumpDir, saveRes, prevTree, runs, capPage, pageDom, capPc,
          capIndex, capStack, capOut, bpc, port, faults, b_playwright,
          b_browser, b_connected, closeCalls, stopCalls, brExc, brRet, via,
          disconnects, contexts, winRes, ctxPages, tabRes, activeRes, ntRes,
          t_playwright_page, t_page_wrapper, pageHeap, got, pwUrl, tabExc,
          opRes, flatPc, flatList, flatOut>>

pyVars == <<pc, connected, tabOpen, exc, excMsg, excCause, root, total, dump>>
jsVars == <<dom, globalIndex, stack, out>>
elVars == <<pel, selRes, clickRes, visRes>>

\* the variables of the other specifications, and what the actions of one
\* specification leave unchanged
saveVars == <<saveUrl, dumpDir, saveRes>>
runVars == <<prevTree, runs>>
capVars == <<capPage, pageDom, capPc, capIndex, capStack, capOut>>
brVars == <<bpc, port, faults, b_playwright, b_browser, b_connected, closeCalls, stopCalls, brExc, brRet, via, disconnects, contexts, winRes>>
winVars == <<ctxPages, tabRes, activeRes, ntRes>>
tabVars == <<t_playwright_page, t_page_wrapper, pageHeap, got, pwUrl, tabExc>>
opVars == <<opRes>>
flatVars == <<flatPc, flatList, flatOut>>
extVars == <<saveVars, runVars, capVars, brVars, winVars, tabVars, opVars, flatVars>>
saveFrame == <<elVars, runVars, capVars, brVars, winVars, tabVars, opVars, flatVars>>
runFrame == <<elVars, saveVars, capVars, brVars, winVars, tabVars, opVars, flatVars>>
capFrame == <<elVars, saveVars, runVars, brVars, winVars, tabVars, opVars, flatVars>>
brFrame == <<elVars, saveVars, runVars, capVars, winVars, tabVars, opVars, flatVars>>
winFrame == <<elVars, saveVars, runVars, capVars, brVars, tabVars, opVars, flatVars>>
tabFrame == <<elVars, saveVars, runVars, capVars, brVars, winVars, opVars, flatVars>>
opFrame == <<elVars, saveVars, runVars, capVars, brVars, winVars, tabVars, flatVars>>
flatFrame == <<elVars, saveVars, runVars, capVars, brVars, winVars, tabVars, opVars>>

-----------------------------------------------------------------------------
(* Bounds of the model.                                                    *)

\* elements of a document whose elements all have style and geometry
MaxNodes == 5
\* elements of a document whose style or geometry queries may fail
MaxFaultNodes == 3
\* classes of an element given to getSimpleSelector
MaxClasses == 2
\* nodes of a document that has text and comment nodes among its elements
MaxMixedNodes == 4

-----------------------------------------------------------------------------
(* Strings.                                                                *)

NULL == <<"NULL">>

UPPER == <<"A","B","C","D","E","F","G","H","I","J","K","L","M",
           "N","O","P","Q","R","S","T","U","V","W","X","Y","Z">>
LOWER == <<"a","b","c","d","e","f","g","h","i","j","k","l","m",
           "n","o","p","q","r","s","t","u","v","w","x","y","z">>
DIGITS == <<"0","1","2","3","4","5","6","7","8","9">>

IsUpper(c) == \E i \in 1..26 : UPPER[i] = c
IsLetter(c) == \E i \in 1..26 : UPPER[i] = c \/ LOWER[i] = c
IsDigit(c) == \E i \in 1..10 : DIGITS[i] = c
IsSpace(c) == c \in {" ", "\t", "\n"}

ToLowerChar(c) == IF IsUpper(c) THEN LOWER[CHOOSE i \in 1..26 : UPPER[i] = c] ELSE c

\* String.prototype.toLowerCase
ToLowerCase(s) == [i \in 1..Len(s) |-> ToLowerChar(s[i])]

RECURSIVE TrimStart(_)
TrimStart(s) == IF s # <<>> /\ IsSpace(Head(s)) THEN TrimStart(Tail(s)) ELSE s

RECURSIVE TrimEnd(_)
TrimEnd(s) ==
    IF s # <<>> /\ IsSpace(s[Len(s)]) THEN TrimEnd(SubSeq(s, 1, Len(s) - 1)) ELSE s

\* String.prototype.trim
Trim(s) == TrimEnd(TrimStart(s))

\* Array.prototype.join
RECURSIVE Join(_, _)
Join(parts, sep) ==
    IF parts = <<>> THEN <<>>
    ELSE IF Len(parts) = 1 THEN parts[1]
    ELSE parts[1] \o sep \o Join(Tail(parts), sep)

\* the decimal digits of a number, as a template literal `${n}` formats it
RECURSIVE NumToString(_)
NumToString(n) ==
    IF n < 10 THEN <<DIGITS[n + 1]>>
    ELSE NumToString(n \div 10) \o <<DIGITS[(n % 10) + 1]>>

\* str(n) of Python for an integer
IntToString(n) == IF n < 0 THEN <<"-">> \o NumToString(0 - n) ELSE NumToString(n)

\* x || "" for a string-or-null x
OrEmpty(x) == IF x = NULL THEN <<>> ELSE x

\* CSS.escape (CSSOM "serialize an identifier"), for strings of printable ASCII
CSSEscapeChar(s, i) ==
    LET c == s[i] IN
    IF IsDigit(c) /\ (i = 1 \/ (i = 2 /\ s[1] = "-"))
        THEN <<"\\", "3", c, " ">>
    ELSE IF i = 1 /\ c = "-" /\ Len(s) = 1
        THEN <<"\\", c>>
    ELSE IF c = "-" \/ c = "_" \/ IsDigit(c) \/ IsLetter(c)
        THEN <<c>>
    ELSE <<"\\", c>>

RECURSIVE CSSEscapeFrom(_, _)
CSSEscapeFrom(s, i) ==
    IF i > Len(s) THEN <<>> ELSE CSSEscapeChar(s, i) \o CSSEscapeFrom(s, i + 1)

CSSEscape(s) == CSSEscapeFrom(s, 1)

\* the result of a call: a value returned, or an exception thrown
Ret(v) == [thrown |-> FALSE, val |-> v]
Throw(e) == [thrown |-> TRUE, err |-> e]

-----------------------------------------------------------------------------
(* An element, as the script reads it:                                     *)
(*   nodeType (1 for an element), tagName, id, classList, the attributes   *)
(*   type, role and onclick (NULL when absent), style = window.getComputedStyle(el) (NoStyle when the   *)
(*   engine yields no style object), geom = what getBoundingClientRect()   *)
(*   does (GeomError when it raises).                                      *)

NoStyle == [display |-> NULL, visibility |-> NULL, opacity |-> NULL, avail |-> FALSE]
Style(d, v, o) == [display |-> d, visibility |-> v, opacity |-> o, avail |-> TRUE]

GeomError == [x |-> 0, y |-> 0, width |-> 0, height |-> 0, raises |-> TRUE]
Geom(x, y, w, h) == [x |-> x, y |-> y, width |-> w, height |-> h, raises |-> FALSE]

\* Element.getBoundingClientRect: the DOMRect of the element's box
GetBoundingClientRect(el) ==
    IF el.geom.raises THEN Throw("GeometryError")
    ELSE Ret([x |-> el.geom.x, y |-> el.geom.y,
              top |-> el.geom.y, left |-> el.geom.x,
              right |-> el.geom.x + el.geom.width,
              bottom |-> el.geom.y + el.geom.height,
              width |-> el.geom.width, height |-> el.geom.height])

NoRect == [x |-> 0, y |-> 0, top |-> 0, left |-> 0, right |-> 0, bottom |-> 0,
           width |-> 0, height |-> 0, isNull |-> TRUE]

\* getBoundingRect(el): the rect copied field by field, null on any failure
getBoundingRect(el) ==
    LET r == GetBoundingClientRect(el) IN
    IF r.thrown THEN NoRect
    ELSE [x |-> r.val.x, y |-> r.val.y, top |-> r.val.top, left |-> r.val.left,
          right |-> r.val.right, bottom |-> r.val.bottom,
          width |-> r.val.width, height |-> r.val.height, isNull |-> FALSE]

\* (variant: the classes joined without the "." between them)
getSimpleSelectorNoDots(el) ==
    IF el.nodeType # 1 THEN <<>>
    ELSE IF el.id # <<>> THEN <<"#">> \o CSSEscape(el.id)
    ELSE LET sel == ToLowerCase(el.tagName) IN
         IF Len(el.classList) > 0
         THEN sel \o <<".">> \o
              Join([i \in 1..Len(el.classList) |-> CSSEscape(el.classList[i])], <<>>)
         ELSE sel

getSimpleSelector(el) ==
    IF el.nodeType # 1 THEN <<>>
    ELSE IF el.id # <<>> THEN <<"#">> \o CSSEscape(el.id)
    ELSE LET sel == ToLowerCase(el.tagName) IN
         IF Len(el.classList) > 0
         THEN sel \o <<".">> \o
              Join([i \in 1..Len(el.classList) |-> CSSEscape(el.classList[i])], <<".">>)
         ELSE sel

ClickableTags == { <<"a">>, <<"b","u","t","t","o","n">>, <<"s","u","m","m","a","r","y">> }
ClickableInputTypes ==
    { <<"b","u","t","t","o","n">>, <<"s","u","b","m","i","t">>, <<"r","e","s","e","t">>,
      <<"c","h","e","c","k","b","o","x">>, <<"r","a","d","i","o">>, <<"i","m","a","g","e">> }
ClickableRoles ==
    { <<"b","u","t","t","o","n">>, <<"l","i","n","k">>, <<"t","a","b">>,
      <<"m","e","n","u","i","t","e","m">> }

\* (variant: type and role compared without toLowerCase)
isClickableCaseSensitive(el) ==
    LET tag == ToLowerCase(el.tagName)
        type == OrEmpty(el.type)
        role == OrEmpty(el.role)
    IN  IF el.nodeType # 1 THEN FALSE
        ELSE IF tag \in ClickableTags THEN TRUE
        ELSE IF tag = <<"i","n","p","u","t">> /\ type \in ClickableInputTypes THEN TRUE
        ELSE IF role \in ClickableRoles THEN TRUE
        ELSE IF el.onclick # NULL /\ el.onclick # <<>> /\ Len(Trim(el.onclick)) > 0 THEN TRUE
        ELSE FALSE

isClickable(el) ==
    LET tag == ToLowerCase(el.tagName)
        type == ToLowerCase(OrEmpty(el.type))
        role == ToLowerCase(OrEmpty(el.role))
    IN  IF el.nodeType # 1 THEN FALSE
        ELSE IF tag \in ClickableTags THEN TRUE
        ELSE IF tag = <<"i","n","p","u","t">> /\ type \in ClickableInputTypes THEN TRUE
        ELSE IF role \in ClickableRoles THEN TRUE
        ELSE IF el.onclick # NULL /\ el.onclick # <<>> /\ Len(Trim(el.onclick)) > 0 THEN TRUE
        ELSE FALSE

\* (variant: the size of the box is not looked at)
isVisibleStyleOnly(el) ==
    IF el.nodeType # 1 THEN Ret(FALSE)
    ELSE IF ~el.style.avail THEN Throw("TypeError")
    ELSE IF \/ el.style.display = <<"n","o","n","e">>
            \/ el.style.visibility = <<"h","i","d","d","e","n">>
            \/ el.style.opacity = <<"0">>
         THEN Ret(FALSE)
    ELSE Ret(TRUE)

\* (variant: the opacity test left out)
isVisibleIgnoringOpacity(el) ==
    IF el.nodeType # 1 THEN Ret(FALSE)
    ELSE IF ~el.style.avail THEN Throw("TypeError")
    ELSE IF \/ el.style.display = <<"n","o","n","e">>
            \/ el.style.visibility = <<"h","i","d","d","e","n">>
         THEN Ret(FALSE)
    ELSE LET r == GetBoundingClientRect(el) IN
         IF r.thrown THEN r
         ELSE Ret(r.val.width > 0 /\ r.val.height > 0)

\* isVisible(el): style.display on a missing style object is a TypeError, and the
\* geometry query is made outside any try block
isVisible(el) ==
    IF el.nodeType # 1 THEN Ret(FALSE)
    ELSE IF ~el.style.avail THEN Throw("TypeError")
    ELSE IF \/ el.style.display = <<"n","o","n","e">>
            \/ el.style.visibility = <<"h","i","d","d","e","n">>
            \/ el.style.opacity = <<"0">>
         THEN Ret(FALSE)
    ELSE LET r == GetBoundingClientRect(el) IN
         IF r.thrown THEN r
         ELSE Ret(r.val.width > 0 /\ r.val.height > 0)

Elem(tagName, id, classList, type, role, onclick, style, geom) ==
    [nodeType |-> 1, tagName |-> tagName, id |-> id, classList |-> classList,
     type |-> type, role |-> role, onclick |-> onclick, style |-> style, geom |-> geom]

S_block == <<"b","l","o","c","k">>
S_none == <<"n","o","n","e">>
S_visible == <<"v","i","s","i","b","l","e">>
S_hidden == <<"h","i","d","d","e","n">>

StyleShown == Style(S_block, S_visible, <<"1">>)
StyleDisplayNone == Style(S_none, S_visible, <<"1">>)
GeomBox == Geom(8, 8, 10, 10)
GeomEmpty == Geom(8, 8, 0, 0)

\* an element with a tag name and nothing else, styled and laid out
PlainElem(tagName) == Elem(tagName, <<>>, <<>>, NULL, NULL, NULL, StyleShown, GeomBox)

-----------------------------------------------------------------------------
(* The element functions on one element: the inputs.                       *)

SeqsUpTo(S, n) == UNION { [1..k -> S] : k \in 0..n }

ProbeIds == { <<>>, <<"f","o","o">>, <<"1","a">>, <<"x",".","y">> }
ProbeClasses == { <<"a">>, <<"b">>, <<"c",":","d">> }
ProbeSelTags == { <<"T">>, <<"D","I","V">> }
SelectorProbes ==
    { Elem(t, id, cl, NULL, NULL, NULL, StyleShown, GeomBox) :
        t \in ProbeSelTags, id \in ProbeIds, cl \in SeqsUpTo(ProbeClasses, MaxClasses) }

ProbeClickTags ==
    { <<"A">>, <<"B","U","T","T","O","N">>, <<"S","U","M","M","A","R","Y">>,
      <<"I","N","P","U","T">>, <<"D","I","V">> }
ProbeTypes ==
    { NULL, <<>>, <<"C","H","E","C","K","B","O","X">>, <<"S","u","b","m","i","t">>,
      <<"t","e","x","t">>, <<"i","m","a","g","e">> }
ProbeRoles ==
    { NULL, <<"B","u","t","t","o","n">>, <<"l","i","n","k">>, <<"T","A","B">>,
      <<"m","e","n","u","i","t","e","m">>, <<"n","o","n","e">> }
ProbeOnclicks ==
    { NULL, <<>>, <<" ", "\t", " ">>, <<"f","(",")">>, <<" ","f","(",")","\n">> }
ClickProbes ==
    { Elem(t, <<>>, <<>>, ty, r, oc, StyleShown, GeomBox) :
        t \in ProbeClickTags, ty \in ProbeTypes, r \in ProbeRoles, oc \in ProbeOnclicks }

ProbeStyles ==
    {NoStyle} \cup
    { Style(d, v, o) : d \in {S_none, S_block}, v \in {S_hidden, S_visible},
                       o \in { <<"0">>, <<"1">>, <<"0",".","5">> } }
ProbeGeoms == {GeomError} \cup { Geom(0, 0, w, h) : w \in {0, 5}, h \in {0, 5} }
VisibleProbes ==
    { Elem(<<"D","I","V">>, <<>>, <<>>, NULL, NULL, NULL, st, g) :
        st \in ProbeStyles, g \in ProbeGeoms }

ProbeElems == SelectorProbes \cup ClickProbes \cup VisibleProbes

Unset == [unset |-> TRUE]

-----------------------------------------------------------------------------
(* A document: elements 1..n, element 1 the root <html>; parent[e] is the  *)
(* parent element of e (0 for the root, whose parentNode is the Document); *)
(* the children of an element are in document order by increasing number.  *)

NoDom == [n |-> 0, parent |-> <<>>, el |-> <<>>]

S_HTML == <<"H","T","M","L">>
S_BODY == <<"B","O","D","Y">>
S_DIV == <<"D","I","V">>
S_SPAN == <<"S","P","A","N">>
Tags == {S_DIV, S_SPAN}

\* the parent vectors of the trees of n elements
\* (elements numbered level by level, so each ordered tree appears once)
RECURSIVE Shapes(_)
Shapes(n) ==
    IF n = 1 THEN { <<0>> }
    ELSE UNION { { Append(p, k) : k \in (IF p[n - 1] = 0 THEN 1 ELSE p[n - 1])..(n - 1) } :
                 p \in Shapes(n - 1) }

\* a document of n elements of shape p whose elements have the tag names t,
\* a style and a box
PlainDom(n, p, t) ==
    [n |-> n, parent |-> p,
     el |-> [e \in 1..n |-> PlainElem(IF e = 1 THEN S_HTML ELSE t[e])]]

\* what the style and geometry queries of an element may do
Views == { <<StyleShown, GeomBox>>, <<StyleShown, GeomEmpty>>, <<StyleShown, GeomError>>,
           <<StyleDisplayNone, GeomBox>>, <<StyleDisplayNone, GeomError>>,
           <<NoStyle, GeomBox>> }

\* a document of n elements of shape p whose style and geometry queries do v
FaultDom(n, p, v) ==
    [n |-> n, parent |-> p,
     el |-> [e \in 1..n |->
               Elem(IF e = 1 THEN S_HTML ELSE S_DIV, <<>>, <<>>, NULL, NULL, NULL,
                    v[e][1], v[e][2])]]

\* <html><body><div id="x"><span>A</span><span>B</span></div></body></html>
ExampleDom ==
    [n |-> 5, parent |-> <<0, 1, 2, 3, 3>>,
     el |-> <<PlainElem(S_HTML), PlainElem(S_BODY),
              Elem(S_DIV, <<"x">>, <<>>, NULL, NULL, NULL, StyleShown, GeomBox),
              PlainElem(S_SPAN), PlainElem(S_SPAN)>>]

\* a text node (nodeType 3) or a comment node (nodeType 8): it has no tag name,
\* no attributes, no computed style and no box
NonElement(nodeType) ==
    [Elem(<<>>, <<>>, <<>>, NULL, NULL, NULL, NoStyle, GeomError) EXCEPT !.nodeType = nodeType]

NodeKinds == {1, 3, 8}

\* a document of n nodes of shape p whose nodes have the node types k; only an
\* element has child nodes, and the root is an element
MixedKinds(n, p) ==
    { k \in [1..n -> NodeKinds] :
        /\ k[1] = 1
        /\ \A e \in 2..n : k[p[e]] = 1
        /\ \E e \in 2..n : k[e] # 1 }

MixedDom(n, p, k) ==
    [n |-> n, parent |-> p,
     el |-> [e \in 1..n |-> IF k[e] = 1 THEN PlainElem(IF e = 1 THEN S_HTML ELSE S_DIV)
                                        ELSE NonElement(k[e])]]

\* a document whose root element was removed: document.documentElement is null
RootlessDom == [n |-> 0, parent |-> <<>>, el |-> <<>>, documentElement |-> NULL]

\* line 534, !el || el.nodeType !== 1 negated: e is a node and an element
IsElement(d, e) == e \in 1..d.n /\ d.el[e].nodeType = 1

\* el.children / firstElementChild, nextElementSibling: the child elements in order
ChildrenOf(d, p) ==
    SelectSeq([e \in 1..d.n |-> e], LAMBDA e : d.parent[e] = p /\ d.el[e].nodeType = 1)

S_SEP == <<" ", ">", " ">>
S_html == <<"h","t","m","l">>

\* (variant: every sibling counted, whatever its tag name)
RECURSIVE SibScanAnyTag(_, _, _, _, _, _)
SibScanAnyTag(d, sibs, k, node, sibCount, sibIndex) ==
    IF k > Len(sibs) THEN [sibCount |-> sibCount, sibIndex |-> sibIndex]
    ELSE SibScanAnyTag(d, sibs, k + 1, node, sibCount + 1,
                       IF sibs[k] = node THEN sibCount ELSE sibIndex)

\* the while (sib) loop of getDomPath: [sibCount, sibIndex] after the siblings sibs[k..]
RECURSIVE SibScan(_, _, _, _, _, _)
SibScan(d, sibs, k, node, sibCount, sibIndex) ==
    IF k > Len(sibs) THEN [sibCount |-> sibCount, sibIndex |-> sibIndex]
    ELSE IF d.el[sibs[k]].tagName = d.el[node].tagName
         THEN SibScan(d, sibs, k + 1, node, sibCount + 1,
                      IF sibs[k] = node THEN sibCount ELSE sibIndex)
         ELSE SibScan(d, sibs, k + 1, node, sibCount, sibIndex)

\* the outer while loop of getDomPath: the stack of path parts
RECURSIVE DomPathStack(_, _, _)
DomPathStack(d, node, parts) ==
    IF node = 0 \/ d.el[node].nodeType # 1 \/ ToLowerCase(d.el[node].tagName) = S_html
    THEN parts
    ELSE LET tag == ToLowerCase(d.el[node].tagName)
             sc == SibScan(d, ChildrenOf(d, d.parent[node]), 1, node, 0, 0)
             part == IF sc.sibCount > 1
                     THEN tag \o <<":","n","t","h","-","o","f","-","t","y","p","e","(">>
                              \o NumToString(sc.sibIndex + 1) \o <<")">>
                     ELSE tag
         IN  DomPathStack(d, d.parent[node], <<part>> \o parts)

getDomPath(d, e) ==
    IF d.el[e].nodeType # 1 THEN <<>>
    ELSE S_html \o S_SEP \o Join(DomPathStack(d, e, <<>>), S_SEP)

\* (variant: the counter lives on between the runs of the script)
KeptGlobalIndex(g) == g

\* let globalIndex = 0 (line 531), inside the function the script is: the
\* counter of a run that starts, whatever value g an earlier run left
LetGlobalIndex(g) == 0

\* (variant: ++globalIndex)
PreIncrement(g) == [value |-> g + 1, next |-> g + 1]

\* globalIndex++ (line 536): the value read, and the value left in the variable
PostIncrement(g) == [value |-> g, next |-> g + 1]

\* the object literal of walk(): the descriptor of element e with index idx
\* (the fields no property reads - name, text, href, src, data_attributes - left out)
NodeOf(d, e, idx) ==
    [index |-> idx,
     tag |-> ToLowerCase(d.el[e].tagName),
     id |-> IF d.el[e].id # <<>> THEN d.el[e].id ELSE NULL,
     classes |-> d.el[e].classList,
     type |-> d.el[e].type,
     role |-> d.el[e].role,
     simple_selector |-> getSimpleSelector(d.el[e]),
     dom_path |-> getDomPath(d, e),
     bounding_client_rect |-> getBoundingRect(d.el[e]),
     is_clickable |-> isClickable(d.el[e]),
     is_visible |-> isVisible(d.el[e]).val,
     children |-> <<>>]

\* the value the script returns: the descriptor of e with its children nested
RECURSIVE TreeOf(_, _)
TreeOf(o, e) ==
    [o[e] EXCEPT !.children = [k \in 1..Len(o[e].children) |-> TreeOf(o, o[e].children[k])]]

NoTree == [isNull |-> TRUE]

\* return walk(rootEl) (line 584): the tree, or null
ScriptResult(o) == IF 1 \in DOMAIN o THEN TreeOf(o, 1) ELSE NoTree
NoDump == [isNull |-> TRUE]

-----------------------------------------------------------------------------
(* The Pydantic models of dump_selectors.py.                               *)

RECURSIVE SumSeq(_)
SumSeq(q) == IF q = <<>> THEN 0 ELSE Head(q) + SumSeq(Tail(q))

\* ElementNode(**raw): the declared fields validated one by one, children nested
RECURSIVE ElementNode(_)
ElementNode(raw) ==
    [index |-> raw.index,
     tag |-> raw.tag,
     id |-> raw.id,
     classes |-> raw.classes,
     type |-> raw.type,
     role |-> raw.role,
     simple_selector |-> raw.simple_selector,
     dom_path |-> raw.dom_path,
     bounding_client_rect |-> raw.bounding_client_rect,
     is_clickable |-> raw.is_clickable,
     is_visible |-> raw.is_visible,
     children |-> [k \in 1..Len(raw.children) |-> ElementNode(raw.children[k])]]

\* (variant: only the direct children counted)
count_nodes_shallow(node) == 1 + Len(node.children)

\* count_nodes, the local function of dump_selectors
RECURSIVE count_nodes(_)
count_nodes(node) ==
    1 + SumSeq([k \in 1..Len(node.children) |-> count_nodes(node.children[k])])

\* the fields SelectorDump declares, and those without a default
SelectorDumpFields == {"url", "title", "total_elements", "elements", "raw_meta"}
SelectorDumpRequired == {"url", "title", "total_elements", "elements"}

\* SelectorDump(**kwargs): a required field that is missing fails the validation;
\* a keyword that is no field is ignored
SelectorDump(kwargs) ==
    IF SelectorDumpRequired \subseteq DOMAIN kwargs
    THEN Ret([f \in (DOMAIN kwargs) \cap SelectorDumpFields |-> kwargs[f]])
    ELSE Throw("ValidationError")

-----------------------------------------------------------------------------
(* Exceptions: the type, str() and the type of __cause__.                  *)

\* s contains sub
Contains(s, sub) ==
    \E i \in 0..(Len(s) - Len(sub)) : SubSeq(s, i + 1, i + Len(sub)) = sub

\* the url argument of dump_selectors
TargetUrl ==
    <<"h","t","t","p","s",":","/","/","e","x","a","m","p","l","e",".","c","o",
      "m","/","a","?","b","=","c">>

\* the title of the page loaded
PageTitle ==
    <<"E","x","a","m","p","l","e"," ","D","o","m","a","i","n">>

\* the least and the greatest port of BrowserConfig, and the default port
PortMin == 1024
PortMax == 65535
DefaultPort == 9222

S_localhost ==
    <<"l","o","c","a","l","h","o","s","t">>

\* BrowserConfig.endpoint_url
endpoint_url(host, p) ==
    <<"h","t","t","p",":","/","/">>
    \o host \o <<":">> \o NumToString(p)

\* config.endpoint_url for the default host and port
EndpointUrl == endpoint_url(S_localhost, DefaultPort)

\* str(e) of an error of the Playwright driver
DriverMsg ==
    <<"T","a","r","g","e","t"," ","c","l","o","s","e","d">>

\* str(e) of the driver's error when the script throws in the page
ScriptMsg ==
    <<"T","y","p","e","E","r","r","o","r",":"," ","C","a","n","n","o","t"," ",
      "r","e","a","d"," ","p","r","o","p","e","r","t","i","e","s"," ","o","f",
      " ","n","u","l","l">>

S_FailedToConnect ==
    <<"F","a","i","l","e","d"," ","t","o"," ","c","o","n","n","e","c","t">>

\* browser.py line 69
FailedToConnectMsg(url, e) ==
    S_FailedToConnect
    \o
    <<" ","t","o"," ","b","r","o","w","s","e","r"," ","a","t"," ">>
    \o url \o <<":", " ">> \o e

ConnectionErrorMsg(e) == FailedToConnectMsg(EndpointUrl, e)

\* browser.py line 115 (index 0)
WindowErrorMsg(e) ==
    <<"F","a","i","l","e","d"," ","t","o"," ","g","e","t"," ","w","i","n","d",
      "o","w"," ","a","t"," ","i","n","d","e","x"," ","0",":"," ">>
    \o e

\* window.py line 80
NewTabErrorMsg(e) ==
    <<"F","a","i","l","e","d"," ","t","o"," ","c","r","e","a","t","e"," ","n",
      "e","w"," ","t","a","b",":"," ">>
    \o e

\* page.py line 58
GotoErrorMsg(url, e) ==
    <<"F","a","i","l","e","d"," ","t","o"," ","n","a","v","i","g","a","t","e",
      " ","t","o"," ","'">>
    \o url \o <<"'", ":", " ">> \o e

\* page.py line 137 (state "networkidle")
LoadStateErrorMsg(e) ==
    <<"T","i","m","e","o","u","t"," ","w","a","i","t","i","n","g"," ","f","o",
      "r"," ","l","o","a","d"," ","s","t","a","t","e"," ","'","n","e","t","w",
      "o","r","k","i","d","l","e","'",":"," ">>
    \o e

\* page.py line 155
EvaluateErrorMsg(e) ==
    <<"F","a","i","l","e","d"," ","t","o"," ","e","v","a","l","u","a","t","e",
      " ","J","a","v","a","S","c","r","i","p","t",":"," ">>
    \o e

\* "Failed to close tab: {e}" (tab.py line 82)
TabCloseErrorMsg(e) ==
    <<"F","a","i","l","e","d"," ","t","o"," ","c","l","o","s","e"," ","t","a",
      "b",":"," ">>
    \o e

\* str() of the TypeError of ElementNode(**None)
NotAMappingMsg ==
    <<"E","l","e","m","e","n","t","N","o","d","e","(",")"," ","a","r","g","u",
      "m","e","n","t"," ","a","f","t","e","r"," ","*","*"," ","m","u","s","t",
      " ","b","e"," ","a"," ","m","a","p","p","i","n","g",","," ","n","o","t",
      " ","N","o","n","e","T","y","p","e">>

\* str() of the ValidationError of a SelectorDump without `elements`
FieldRequiredMsg ==
    <<"1"," ","v","a","l","i","d","a","t","i","o","n"," ","e","r","r","o","r",
      " ","f","o","r"," ","S","e","l","e","c","t","o","r","D","u","m","p"," ",
      "e","l","e","m","e","n","t","s"," ","F","i","e","l","d"," ","r","e","q",
      "u","i","r","e","d">>

-----------------------------------------------------------------------------
(* dump_selectors: one action per await.                                   *)

InitPy ==
    /\ pc = "connect"
    /\ connected = FALSE
    /\ tabOpen = FALSE
    /\ exc = "none"
    /\ excMsg = <<>>
    /\ excCause = "none"
    /\ root = NoTree
    /\ total = -1
    /\ dump = NoDump

InitJs ==
    /\ dom = NoDom
    /\ globalIndex = 0
    /\ stack = <<>>
    /\ out = <<>>

InitEl ==
    /\ pel = PlainElem(S_DIV)
    /\ selRes = Unset
    /\ clickRes = Unset
    /\ visRes = Unset

\* the variables of a specification while another specification runs
IdleSave ==
    /\ saveUrl = <<>>
    /\ dumpDir = <<>>
    /\ saveRes = Unset

IdleRun ==
    /\ prevTree = NoTree
    /\ runs = 0

IdleCap ==
    /\ capPage = <<>>
    /\ pageDom = <<>>
    /\ capPc = <<>>
    /\ capIndex = <<>>
    /\ capStack = <<>>
    /\ capOut = <<>>

IdleBr ==
    /\ bpc = "idle"
    /\ port = 0
    /\ faults = {}
    /\ b_playwright = FALSE
    /\ b_browser = FALSE
    /\ b_connected = FALSE
    /\ closeCalls = 0
    /\ stopCalls = 0
    /\ brExc = [type |-> "none", msg |-> <<>>, cause |-> "none"]
    /\ brRet = FALSE
    /\ via = "none"
    /\ disconnects = 0
    /\ contexts = <<>>
    /\ winRes = Unset

IdleWin ==
    /\ ctxPages = <<>>
    /\ tabRes = Unset
    /\ activeRes = Unset
    /\ ntRes = Unset

IdleTab ==
    /\ t_playwright_page = <<>>
    /\ t_page_wrapper = <<>>
    /\ pageHeap = <<>>
    /\ got = <<>>
    /\ pwUrl = <<>>
    /\ tabExc = [type |-> "none", msg |-> <<>>, cause |-> "none"]

IdleOp ==
    /\ opRes = Unset

IdleFlat ==
    /\ flatPc = "idle"
    /\ flatList = <<>>
    /\ flatOut = <<>>

IdleExt == IdleSave /\ IdleRun /\ IdleCap /\ IdleBr /\ IdleWin /\ IdleTab /\ IdleOp /\ IdleFlat

IdleButSave == InitEl /\ IdleRun /\ IdleCap /\ IdleBr /\ IdleWin /\ IdleTab /\ IdleOp /\ IdleFlat
IdleButRun == InitEl /\ IdleSave /\ IdleCap /\ IdleBr /\ IdleWin /\ IdleTab /\ IdleOp /\ IdleFlat
IdleButCap == InitEl /\ IdleSave /\ IdleRun /\ IdleBr /\ IdleWin /\ IdleTab /\ IdleOp /\ IdleFlat
IdleButBr == InitEl /\ IdleSave /\ IdleRun /\ IdleCap /\ IdleWin /\ IdleTab /\ IdleOp /\ IdleFlat
IdleButWin == InitEl /\ IdleSave /\ IdleRun /\ IdleCap /\ IdleBr /\ IdleTab /\ IdleOp /\ IdleFlat
IdleButTab == InitEl /\ IdleSave /\ IdleRun /\ IdleCap /\ IdleBr /\ IdleWin /\ IdleOp /\ IdleFlat
IdleButOp == InitEl /\ IdleSave /\ IdleRun /\ IdleCap /\ IdleBr /\ IdleWin /\ IdleTab /\ IdleFlat
IdleButFlat == InitEl /\ IdleSave /\ IdleRun /\ IdleCap /\ IdleBr /\ IdleWin /\ IdleTab /\ IdleOp

Init == InitPy /\ InitJs /\ InitEl /\ IdleExt

\* no exception is raised
NoRaise == UNCHANGED <<exc, excMsg, excCause>>

\* (variant: the awaits are not in a try block with a finally clause)
RaiseOutsideTry(e, m, c) ==
    /\ exc' = e
    /\ excMsg' = m
    /\ excCause' = c
    /\ pc' = "done"

\* an exception of type e with str() m and __cause__ c inside the try block:
\* control goes to the finally clause
Raise(e, m, c) ==
    /\ exc' = e
    /\ excMsg' = m
    /\ excCause' = c
    /\ pc' = "finally"

\* line 624: browser = await Browser.connect(...), outside the try block; connect
\* raises ConnectionError, or what the driver's stop() raises in its handler
\* (browser.py lines 66-69)
Connect ==
    /\ pc = "connect"
    /\ \/ /\ connected' = TRUE
          /\ pc' = "get_window"
          /\ NoRaise
       \/ /\ connected' = FALSE
          /\ pc' = "done"
          /\ exc' = "ConnectionError"
          /\ excMsg' = ConnectionErrorMsg(DriverMsg)
          /\ excCause' = "PlaywrightError"
       \/ /\ connected' = FALSE
          /\ pc' = "done"
          /\ exc' = "PlaywrightError"
          /\ excMsg' = DriverMsg
          /\ excCause' = "none"
    /\ UNCHANGED <<tabOpen, root, total, dump>>
    /\ UNCHANGED jsVars
    /\ UNCHANGED elVars
    /\ UNCHANGED extVars

\* line 627: window = await browser.get_window(0)
GetWindow ==
    /\ pc = "get_window"
    /\ \/ /\ pc' = "new_tab"
          /\ NoRaise
       \/ Raise("WindowError", WindowErrorMsg(DriverMsg), "PlaywrightError")
    /\ UNCHANGED <<connected, tabOpen, root, total, dump>>
    /\ UNCHANGED jsVars
    /\ UNCHANGED elVars
    /\ UNCHANGED extVars

\* lines 628-629: tab = await window.new_tab(); page = await tab.get_page()
NewTab ==
    /\ pc = "new_tab"
    /\ \/ /\ tabOpen' = TRUE
          /\ pc' = "goto"
          /\ NoRaise
       \/ /\ tabOpen' = tabOpen
          /\ Raise("TabError", NewTabErrorMsg(DriverMsg), "PlaywrightError")
    /\ UNCHANGED <<connected, root, total, dump>>
    /\ UNCHANGED jsVars
    /\ UNCHANGED elVars
    /\ UNCHANGED extVars

\* line 631: await page.goto(url)
Goto ==
    /\ pc = "goto"
    /\ \/ /\ pc' = "wait_for_load_state"
          /\ NoRaise
       \/ Raise("NavigationError", GotoErrorMsg(TargetUrl, DriverMsg), "PlaywrightError")
    /\ UNCHANGED <<connected, tabOpen, root, total, dump>>
    /\ UNCHANGED jsVars
    /\ UNCHANGED elVars
    /\ UNCHANGED extVars

\* line 632: await page.wait_for_load_state("networkidle")
WaitForLoadState ==
    /\ pc = "wait_for_load_state"
    /\ \/ /\ pc' = "title"
          /\ NoRaise
       \/ Raise("TimeoutError", LoadStateErrorMsg(DriverMsg), "PlaywrightError")
    /\ UNCHANGED <<connected, tabOpen, root, total, dump>>
    /\ UNCHANGED jsVars
    /\ UNCHANGED elVars
    /\ UNCHANGED extVars

\* line 634: title = await page.title(); Page.title (page.py lines 157-159) has
\* no try block, the driver's error is raised as it is
Title ==
    /\ pc = "title"
    /\ \/ /\ pc' = "evaluate"
          /\ NoRaise
       \/ Raise("PlaywrightError", DriverMsg, "none")
    /\ UNCHANGED <<connected, tabOpen, root, total, dump>>
    /\ UNCHANGED jsVars
    /\ UNCHANGED elVars
    /\ UNCHANGED extVars

\* line 635: page.evaluate(JS_COLLECT_SELECTOR_TREE) starts the script on the
\* document then loaded (lines 531, 583), or the driver fails to run it
Evaluate ==
    /\ pc = "evaluate"
    /\ \/ /\ \/ \E n \in 1..MaxNodes :
                   \E p \in Shapes(n), t \in [2..n -> Tags] : dom' = PlainDom(n, p, t)
             \/ \E n \in 1..MaxFaultNodes :
                   \E p \in Shapes(n), v \in [1..n -> Views] : dom' = FaultDom(n, p, v)
             \/ \E n \in 2..MaxMixedNodes :
                   \E p \in Shapes(n) : \E k \in MixedKinds(n, p) : dom' = MixedDom(n, p, k)
             \/ dom' = ExampleDom
             \/ dom' = RootlessDom
          /\ globalIndex' = LetGlobalIndex(globalIndex)
          /\ stack' = <<>>
          /\ out' = <<>>
          /\ pc' = "walk"
          /\ NoRaise
       \/ /\ Raise("NavigationError", EvaluateErrorMsg(DriverMsg), "PlaywrightError")
          /\ UNCHANGED jsVars
    /\ UNCHANGED <<connected, tabOpen, root, total, dump>>
    /\ UNCHANGED elVars
    /\ UNCHANGED extVars

\* the node walk() is called on next in the document d with the call stack st:
\* the root, or the next child of the element on top of the stack (0 if its loop
\* over the children is over)
NextElOf(d, st) ==
    IF st = <<>> THEN 1
    ELSE LET f == st[Len(st)]
             ch == ChildrenOf(d, f.el)
         IN  IF f.i <= Len(ch) THEN ch[f.i] ELSE 0

NextEl == NextElOf(dom, stack)

\* the loop over the children of the caller moves on (line 573)
Advance(st) == IF st = <<>> THEN <<>> ELSE [st EXCEPT ![Len(st)].i = @ + 1]

\* walk(el), lines 534-570, in the document d with call stack st, counter g and
\* descriptors o: null is returned for what is no element; else the index is
\* taken and the descriptor built, unless isVisible throws
walkEnter(d, st, g, o) ==
    LET e == NextElOf(d, st)
        ix == PostIncrement(g)
    IN  IF ~IsElement(d, e)
        THEN [thrown |-> FALSE, over |-> st = <<>>, globalIndex |-> g,
              stack |-> Advance(st), out |-> o]
        ELSE IF isVisible(d.el[e]).thrown
        THEN [thrown |-> TRUE, over |-> TRUE, globalIndex |-> ix.next,
              stack |-> <<>>, out |-> o]
        ELSE [thrown |-> FALSE, over |-> FALSE, globalIndex |-> ix.next,
              stack |-> Advance(st) \o <<[el |-> e, i |-> 1]>>,
              out |-> o @@ (e :> NodeOf(d, e, ix.value))]

\* walk(el), lines 572-580: the loop over the children is over, the descriptor
\* is returned; the caller pushes it onto its children (lines 574-577)
walkReturn(st, o) ==
    LET e == st[Len(st)].el
        rest == SubSeq(st, 1, Len(st) - 1)
    IN  [over |-> rest = <<>>,
         stack |-> rest,
         out |-> IF rest = <<>> THEN o
                 ELSE [o EXCEPT ![rest[Len(rest)].el].children = Append(@, e)]]

\* one call of walk() is entered; an exception of isVisible leaves the script,
\* and Page.evaluate raises NavigationError (page.py lines 150-155); walk(rootEl)
\* returning null ends the script (line 584)
WalkEnter ==
    /\ pc = "walk"
    /\ NextEl # 0
    /\ LET r == walkEnter(dom, stack, globalIndex, out)
       IN  /\ globalIndex' = r.globalIndex
           /\ stack' = r.stack
           /\ out' = r.out
           /\ IF r.thrown
              THEN Raise("NavigationError", EvaluateErrorMsg(ScriptMsg), "PlaywrightError")
              ELSE /\ pc' = IF r.over THEN "built" ELSE pc
                   /\ NoRaise
    /\ UNCHANGED <<connected, tabOpen, root, total, dump, dom>>
    /\ UNCHANGED elVars
    /\ UNCHANGED extVars

\* one call of walk() returns; the script ends when it is walk(rootEl)
WalkReturn ==
    /\ pc = "walk"
    /\ stack # <<>>
    /\ NextEl = 0
    /\ LET r == walkReturn(stack, out)
       IN  /\ stack' = r.stack
           /\ out' = r.out
           /\ pc' = IF r.over THEN "built" ELSE pc
    /\ NoRaise
    /\ UNCHANGED <<connected, tabOpen, root, total, dump, dom, globalIndex>>
    /\ UNCHANGED elVars
    /\ UNCHANGED extVars

\* lines 637-653: root, total and the SelectorDump are built without an await;
\* then await tab.close(), which may raise TabError (tab.py lines 77-82), and
\* return dump.  root_raw is None when the script returned null, and
\* ElementNode(**None) raises TypeError
BuildDump ==
    /\ pc = "built"
    /\ IF 1 \notin DOMAIN out
       THEN /\ Raise("TypeError", NotAMappingMsg, "none")
            /\ UNCHANGED <<root, total, dump, tabOpen>>
       ELSE LET root_raw == TreeOf(out, 1)
                r == ElementNode(root_raw)
                t == count_nodes(r)
                d == SelectorDump([url |-> TargetUrl, title |-> PageTitle,
                                   total_elements |-> t, root |-> r,
                                   raw_meta |-> [window_index |-> 0]])
            IN  /\ root' = r
                /\ total' = t
                /\ IF d.thrown
                   THEN /\ Raise(d.err, FieldRequiredMsg, "none")
                        /\ UNCHANGED <<dump, tabOpen>>
                   ELSE \E closeFails \in BOOLEAN :
                          IF closeFails
                          THEN /\ Raise("TabError", TabCloseErrorMsg(DriverMsg),
                                        "PlaywrightError")
                               /\ UNCHANGED <<dump, tabOpen>>
                          ELSE /\ dump' = d.val
                               /\ tabOpen' = FALSE
                               /\ pc' = "finally"
                               /\ NoRaise
    /\ UNCHANGED connected
    /\ UNCHANGED jsVars
    /\ UNCHANGED elVars
    /\ UNCHANGED extVars

\* lines 654-655: finally: await browser.disconnect(); the exception in flight,
\* if any, then reaches the caller
Disconnect ==
    /\ pc = "finally"
    /\ connected' = FALSE
    /\ pc' = "done"
    /\ NoRaise
    /\ UNCHANGED <<tabOpen, root, total, dump>>
    /\ UNCHANGED jsVars
    /\ UNCHANGED elVars
    /\ UNCHANGED extVars

Next ==
    \/ Connect
    \/ GetWindow
    \/ NewTab
    \/ Goto
    \/ WaitForLoadState
    \/ Title
    \/ Evaluate
    \/ WalkEnter
    \/ WalkReturn
    \/ BuildDump
    \/ Disconnect

Spec == Init /\ [][Next]_vars

-----------------------------------------------------------------------------
(* The element functions applied to one element.                           *)

InitElem ==
    /\ InitPy
    /\ InitJs
    /\ IdleExt
    /\ pel \in ProbeElems
    /\ selRes = Unset
    /\ clickRes = Unset
    /\ visRes = Unset

ApplySimpleSelector ==
    /\ selRes = Unset
    /\ selRes' = Ret(getSimpleSelector(pel))
    /\ UNCHANGED <<pel, clickRes, visRes>>
    /\ UNCHANGED pyVars
    /\ UNCHANGED jsVars
    /\ UNCHANGED extVars

ApplyIsClickable ==
    /\ clickRes = Unset
    /\ clickRes' = Ret(isClickable(pel))
    /\ UNCHANGED <<pel, selRes, visRes>>
    /\ UNCHANGED pyVars
    /\ UNCHANGED jsVars
    /\ UNCHANGED extVars

ApplyIsVisible ==
    /\ visRes = Unset
    /\ visRes' = isVisible(pel)
    /\ UNCHANGED <<pel, selRes, clickRes>>
    /\ UNCHANGED pyVars
    /\ UNCHANGED jsVars
    /\ UNCHANGED extVars

NextElem == ApplySimpleSelector \/ ApplyIsClickable \/ ApplyIsVisible

SpecElem == InitElem /\ [][NextElem]_vars

-----------------------------------------------------------------------------
(* Properties of the walk and of dump_selectors (specification Spec).      *)

\* the elements of the subtree of e in the descriptors o (children by reference)
RECURSIVE SubtreeOf(_, _)
SubtreeOf(o, e) ==
    {e} \cup UNION { SubtreeOf(o, o[e].children[k]) : k \in 1..Len(o[e].children) }

\* the same-tag children of the parent of e, and the path segment they give e
SameTagSiblings(d, e) ==
    { s \in 1..d.n : d.parent[s] = d.parent[e] /\ d.el[s].tagName = d.el[e].tagName }

Segment(d, e) ==
    ToLowerCase(d.el[e].tagName) \o
    (IF Cardinality(SameTagSiblings(d, e)) > 1
     THEN <<":","n","t","h","-","o","f","-","t","y","p","e","(">>
          \o NumToString(Cardinality({ s \in SameTagSiblings(d, e) : s <= e })) \o <<")">>
     ELSE <<>>)

\* the elements from the child of the root down to e
RECURSIVE Chain(_, _)
Chain(d, e) == IF e = 1 THEN <<>> ELSE Append(Chain(d, d.parent[e]), e)

\* the document was walked to the end and the tree counted
Counted == total # -1

\* the elements of the document d
ElementsOf(d) == { e \in 1..d.n : d.el[e].nodeType = 1 }

\* the script has ended on a document, by returning or by throwing
ScriptOver == dom # NoDom /\ pc \in {"built", "finally", "done"}

\* C1: the total_elements that dump_selectors computes for the record,
\* count_nodes(root), is the number of descriptors the walk produced, which is
\* the number of walk() calls that returned a node.
C1_TotalIsWalkCount ==
    Counted =>
        /\ total = Cardinality(DOMAIN out)
        /\ total = globalIndex
        /\ total = Cardinality(ElementsOf(dom))

C1_Witness ==
    /\ Counted
    /\ total = 5
    /\ Len(root.children) = 2
    /\ \E k \in 1..2 : root.children[k].children # <<>>

\* C2: the indices of a finished walk are exactly 0..totalElements-1 without
\* repeats and in pre-order: a node's index is below its descendants', an earlier
\* child's subtree is below a later child's, and the children are the element
\* children in document order.
C2_IndicesPreorder ==
    Counted =>
        /\ { out[e].index : e \in DOMAIN out } = 0..(total - 1)
        /\ \A a, b \in DOMAIN out : a # b => out[a].index # out[b].index
        /\ \A e \in DOMAIN out :
             /\ out[e].children = ChildrenOf(dom, e)
             /\ \A x \in SubtreeOf(out, e) \ {e} : out[e].index < out[x].index
             /\ \A i, j \in 1..Len(out[e].children) :
                  i < j =>
                    \A a \in SubtreeOf(out, out[e].children[i]),
                       b \in SubtreeOf(out, out[e].children[j]) :
                         out[a].index < out[b].index

C2_Witness ==
    /\ Counted
    /\ total = 5
    /\ \E e \in DOMAIN out : out[e].index # e - 1
    /\ Len(out[1].children) = 2

\* C3: the dom_path of the root <html> element is exactly "html".
C3_RootPathIsHtml ==
    1 \in DOMAIN out => out[1].dom_path = S_html

\* C4: below <html>, every segment of a dom_path is the lower-case tag name, with
\* :nth-of-type(n) exactly when more than one child of the parent has that tag
\* name, n the 1-based place among them; the second span of the example document
\* has "html > body > div > span:nth-of-type(2)".
C4_PathSegments ==
    /\ \A e \in DOMAIN out \ {1} :
         out[e].dom_path =
           Join(<<S_html>> \o [k \in 1..Len(Chain(dom, e)) |-> Segment(dom, Chain(dom, e)[k])],
                S_SEP)
    /\ (dom = ExampleDom /\ 5 \in DOMAIN out) =>
         out[5].dom_path =
           <<"h","t","m","l"," ",">"," ","b","o","d","y"," ",">"," ","d","i","v"," ",">"," ",
             "s","p","a","n",":","n","t","h","-","o","f","-","t","y","p","e","(","2",")">>
    /\ \A e \in DOMAIN out \ {1} :
         /\ Cardinality(SameTagSiblings(dom, e)) = 1 =>
              SubSeq(out[e].dom_path, Len(out[e].dom_path) - Len(dom.el[e].tagName) - 2,
                     Len(out[e].dom_path)) = S_SEP \o ToLowerCase(dom.el[e].tagName)
         /\ (/\ Cardinality(SameTagSiblings(dom, e)) = 3
             /\ Cardinality({ s \in SameTagSiblings(dom, e) : s < e }) = 1) =>
              SubSeq(out[e].dom_path, Len(out[e].dom_path) - 14, Len(out[e].dom_path)) =
                <<":","n","t","h","-","o","f","-","t","y","p","e","(","2",")">>

C4_Witness ==
    /\ dom = ExampleDom
    /\ 5 \in DOMAIN out
    /\ pc = "built"

\* C5: the dom_path of a descriptor is its parent descriptor's dom_path, then
\* " > ", then one segment for the child, at every depth, also for the children
\* of the root.
C5_PathExtendsParent ==
    \A e \in DOMAIN out \ {1} :
        out[e].dom_path = out[dom.parent[e]].dom_path \o S_SEP \o Segment(dom, e)

\* C9: an element whose computed style is unavailable gets is_visible = false,
\* and the walk goes on to the end without raising (here: in documents whose
\* geometry queries all succeed).
C9_NoStyleNotVisible ==
    (/\ ScriptOver
     /\ \E e \in ElementsOf(dom) : ~dom.el[e].style.avail
     /\ \A e \in ElementsOf(dom) : ~dom.el[e].geom.raises)
    => /\ exc # "NavigationError"
       /\ DOMAIN out = ElementsOf(dom)
       /\ \A e \in ElementsOf(dom) : ~dom.el[e].style.avail => out[e].is_visible = FALSE

\* C10: a geometry query that raises never leaves the walk: the walk returns the
\* full tree and the descriptor of that element has bounding_client_rect = null
\* (here: in documents whose elements all have a computed style).
C10_GeometryFailureContained ==
    (/\ ScriptOver
     /\ \E e \in ElementsOf(dom) : dom.el[e].geom.raises
     /\ \A e \in ElementsOf(dom) : dom.el[e].style.avail)
    => /\ exc # "NavigationError"
       /\ DOMAIN out = ElementsOf(dom)
       /\ \A e \in ElementsOf(dom) : dom.el[e].geom.raises => out[e].bounding_client_rect.isNull

\* C11: what is no element is skipped without an error: a text or comment child
\* gets no descriptor and takes no index, and a document whose root is missing
\* (or no element) makes neither walk() nor the code of dump_selectors that
\* consumes its result fail.
C11_NonElementsSkipped ==
    /\ pc = "built" =>
         /\ DOMAIN out = ElementsOf(dom)
         /\ globalIndex = Cardinality(ElementsOf(dom))
         /\ { out[e].index : e \in DOMAIN out } = 0..(Cardinality(ElementsOf(dom)) - 1)
    /\ (ScriptOver /\ ~IsElement(dom, 1)) => exc = "none"

\* C12: when every browser call succeeds, dump_selectors returns one record with
\* the url, the title, total_elements, raw_meta and, as root, the ElementNode of
\* <html>; building the record does not fail.
C12_ReturnsSnapshot ==
    (pc = "done" /\ Counted) =>
        /\ exc = "none"
        /\ dump # NoDump
        /\ dump.url = TargetUrl
        /\ dump.title = PageTitle
        /\ dump.total_elements = total
        /\ dump.raw_meta = [window_index |-> 0]
        /\ dump.root = root
        /\ root.tag = S_html

\* C13: a failure to get the title or to run the tree walk reaches the caller as
\* one failure that carries the target URL and the underlying cause, and no
\* partial record is returned.
C13_CollectorFailure ==
    [][(pc \in {"title", "evaluate", "walk"} /\ pc' = "finally")
         => /\ Contains(excMsg', TargetUrl)
            /\ excCause' # "none"
            /\ dump' = NoDump]_vars

\* C25: on every exit path of dump_selectors after a successful connect
\* (return, or an exception of get_window, new_tab, goto, wait_for_load_state,
\* title, evaluate, the construction of the models or tab.close), the browser
\* is disconnected before control returns to the caller.
C25_DisconnectedOnExit ==
    /\ pc = "done" => ~connected
    /\ connected => pc \notin {"connect", "done"}

C25_Witness ==
    /\ pc = "done"
    /\ exc = "TimeoutError"
    /\ excCause = "PlaywrightError"
    /\ tabOpen
    /\ ~connected

\* C26: on every exit path of dump_selectors the tab opened by window.new_tab()
\* has been closed before control returns: a failure of goto,
\* wait_for_load_state, title, evaluate or the construction of the record
\* leaves no tab open.
C26_TabClosedOnExit ==
    pc = "done" => ~tabOpen

\* C30: in every descriptor the walk produces, is_visible = true implies that
\* bounding_client_rect is not null and has width > 0 and height > 0.
C30_VisibleHasBox ==
    \A e \in DOMAIN out :
        out[e].is_visible =>
            /\ out[e].bounding_client_rect # NoRect
            /\ out[e].bounding_client_rect.width > 0
            /\ out[e].bounding_client_rect.height > 0

C30_Witness ==
    /\ pc = "built"
    /\ \E e \in DOMAIN out :
          /\ out[e].is_visible
          /\ out[e].bounding_client_rect.width = 10
          /\ out[e].bounding_client_rect.height = 10
    /\ \E e \in DOMAIN out :
          /\ ~out[e].is_visible
          /\ dom.el[e].style = StyleShown
          /\ out[e].bounding_client_rect # NoRect
          /\ out[e].bounding_client_rect.width = 0

-----------------------------------------------------------------------------
(* Properties of the element functions (specification SpecElem).           *)

\* two strings are equal when compared case-insensitively
EqIgnoreCase(a, b) ==
    /\ Len(a) = Len(b)
    /\ \A i \in 1..Len(a) : ToLowerChar(a[i]) = ToLowerChar(b[i])

\* "." + escaped class for every class, in class-list order
RECURSIVE DottedClasses(_)
DottedClasses(cl) ==
    IF cl = <<>> THEN <<>> ELSE <<".">> \o CSSEscape(Head(cl)) \o DottedClasses(Tail(cl))

\* C6: getSimpleSelector is "#" + escaped id when the id is non-empty, whatever
\* the classes; otherwise the lower-case tag name followed by "." + escaped class
\* per class in order (id "foo" gives "#foo"; classes [a, b] on tag t give "t.a.b").
C6_SimpleSelector ==
    selRes # Unset =>
        /\ selRes.val = IF pel.id # <<>> THEN <<"#">> \o CSSEscape(pel.id)
                        ELSE ToLowerCase(pel.tagName) \o DottedClasses(pel.classList)
        /\ pel.id = <<"f","o","o">> => selRes.val = <<"#","f","o","o">>
        /\ (pel.id = <<>> /\ pel.tagName = <<"T">> /\ pel.classList = << <<"a">>, <<"b">> >>)
             => selRes.val = <<"t",".","a",".","b">>
        /\ (pel.id = <<>> /\ pel.classList = <<>>) => selRes.val = ToLowerCase(pel.tagName)

C6_Witness ==
    /\ selRes # Unset
    /\ pel.id = <<"f","o","o">>
    /\ Len(pel.classList) = 2

\* C7: isClickable is true exactly when the tag is a, button or summary; or the
\* tag is input and its type is, ignoring case, one of button, submit, reset,
\* checkbox, radio, image; or the role is, ignoring case, one of button, link,
\* tab, menuitem; or onclick is present and not empty after trimming.
C7_Clickable ==
    clickRes # Unset =>
        /\ clickRes.val =
             (\/ \E t \in ClickableTags : EqIgnoreCase(pel.tagName, t)
              \/ /\ EqIgnoreCase(pel.tagName, <<"i","n","p","u","t">>)
                 /\ pel.type # NULL
                 /\ \E t \in ClickableInputTypes : EqIgnoreCase(pel.type, t)
              \/ /\ pel.role # NULL
                 /\ \E r \in ClickableRoles : EqIgnoreCase(pel.role, r)
              \/ /\ pel.onclick # NULL
                 /\ \E i \in 1..Len(pel.onclick) : ~IsSpace(pel.onclick[i]))
        /\ (pel.tagName = <<"I","N","P","U","T">>
              /\ pel.type = <<"C","H","E","C","K","B","O","X">>) => clickRes.val = TRUE
        /\ (pel.tagName = S_DIV /\ pel.role = NULL /\ pel.onclick = NULL)
              => clickRes.val = FALSE
        /\ (pel.tagName = S_DIV /\ pel.role = NULL /\ pel.onclick = <<" ", "\t", " ">>)
              => clickRes.val = FALSE

C7_Witness ==
    /\ clickRes # Unset
    /\ pel.tagName = <<"I","N","P","U","T">>
    /\ pel.type = <<"C","H","E","C","K","B","O","X">>
    /\ pel.role = NULL
    /\ pel.onclick = NULL
    /\ clickRes.val = TRUE

\* C8: with a computed style, is_visible is false when display is "none",
\* visibility is "hidden" or opacity is the string "0", whatever the box; in every
\* other case it is true exactly when the box's width and height are both > 0.
C8_Visible ==
    (visRes # Unset /\ pel.style.avail) =>
        IF \/ pel.style.display = S_none
           \/ pel.style.visibility = S_hidden
           \/ pel.style.opacity = <<"0">>
        THEN visRes = Ret(FALSE)
        ELSE ~pel.geom.raises =>
               visRes = Ret(pel.geom.width > 0 /\ pel.geom.height > 0)

C8_Witness ==
    /\ visRes = Ret(FALSE)
    /\ pel.style = Style(S_block, S_visible, <<"0">>)
    /\ pel.geom = Geom(0, 0, 5, 5)

-----------------------------------------------------------------------------
(* save_selector_dump (lines 690-724): the path of the file of a dump.     *)

\* characters of a string tried as a URL
MaxUrlLen == 3
\* characters of the path of a long URL
MaxUrlPad == 270
\* characters of the name of a long directory
MaxDirPad == 232

\* line 715: the longest file name wanted; line 718: the budget of a cut name
FileNameLimit == 255
TruncateBudget == 250

\* str.replace(old, new) for a one-character new and an old that cannot overlap
\* itself (as "://", "/", "?", "&", "=", ".", ":"): every occurrence of old is
\* replaced; the first character of an occurrence becomes new, the others go
Replace(str, old, new) ==
    LET starts == { i \in 1..(Len(str) - Len(old) + 1) :
                      SubSeq(str, i, i + Len(old) - 1) = old }
        marked == [i \in 1..Len(str) |->
                     IF i \in starts THEN new[1]
                     ELSE IF \E j \in starts : j < i /\ i < j + Len(old) THEN ""
                     ELSE str[i]]
    IN  SelectSeq(marked, LAMBDA c : c # "")

\* line 705: the chain of replacements that makes normalized_urldir
normalized_urldir(url) ==
    Replace(Replace(Replace(Replace(Replace(Replace(url,
        <<":", "/", "/">>, <<"_">>), <<"/">>, <<"_">>), <<"?">>, <<"_">>),
        <<"&">>, <<"_">>), <<"=">>, <<"_">>), <<".">>, <<"_">>)

\* str.find from position k (1-based) of the first character in cs, Len + 1 if none
FindFirst(str, cs, k) ==
    IF \E i \in k..Len(str) : str[i] \in cs
    THEN CHOOSE i \in k..Len(str) : str[i] \in cs /\ \A j \in k..(i - 1) : str[j] \notin cs
    ELSE Len(str) + 1

IsSchemeChar(c) == IsLetter(c) \/ IsDigit(c) \/ c \in {"+", "-", "."}

\* urlparse(url).netloc: the scheme, if any, is split off at the first ":";
\* what follows "//" up to the next "/", "?" or "#" is the netloc
urlparse_netloc(url) ==
    LET i == FindFirst(url, {":"}, 1)
        hasScheme == /\ 1 < i
                     /\ i <= Len(url)
                     /\ IsLetter(url[1])
                     /\ \A k \in 1..(i - 1) : IsSchemeChar(url[k])
        rest == IF hasScheme THEN SubSeq(url, i + 1, Len(url)) ELSE url
    IN  IF Len(rest) >= 2 /\ rest[1] = "/" /\ rest[2] = "/"
        THEN SubSeq(rest, 3, FindFirst(rest, {"/", "?", "#"}, 3) - 1)
        ELSE <<>>

S_unknown == <<"u","n","k","n","o","w","n">>
S_json == <<".","j","s","o","n">>

\* line 710
subdir_name(host) ==
    Replace(Replace(Replace(host, <<":">>, <<"_">>), <<"/">>, <<"_">>), <<".">>, <<"_">>)

\* line 708: datetime.now().strftime("%Y%m%d_%H%M%S"), fifteen characters
Timestamp == <<"2","0","2","6","0","1","0","2","_","0","3","0","4","0","5">>

\* path / name of pathlib, for a name without "/"
PathJoin(path, name) == path \o <<"/">> \o name

\* Path.name: what follows the last "/"
PathName(path) ==
    LET slashes == { i \in 1..Len(path) : path[i] = "/" }
        last == IF slashes = {} THEN 0
                ELSE CHOOSE i \in slashes : \A j \in slashes : j <= i
    IN  SubSeq(path, last + 1, Len(path))

\* str[:k] of Python: the first k characters, or all but the last -k
PySlice(str, k) ==
    IF k >= 0 THEN SubSeq(str, 1, IF k < Len(str) THEN k ELSE Len(str))
    ELSE SubSeq(str, 1, IF Len(str) + k > 0 THEN Len(str) + k ELSE 0)

\* lines 705-719: the path chosen for the file
file_path_of(url, dump_dir) ==
    LET normalized == normalized_urldir(url)
        netloc == urlparse_netloc(url)
        host == IF netloc # <<>> THEN netloc ELSE S_unknown
        run_dir == PathJoin(dump_dir, subdir_name(host))
        prelim_name == PathJoin(run_dir, Timestamp)
        file_path == PathJoin(prelim_name, normalized \o S_json)
        prelim_len == Len(prelim_name)
        extra_len == TruncateBudget - prelim_len
    IN  IF Len(PathName(file_path)) > FileNameLimit
        THEN PathJoin(prelim_name, PySlice(normalized, extra_len) \o S_json)
        ELSE file_path

\* lines 721-724: the file is written and its path returned; writing a file
\* whose name is longer than the file system takes raises OSError
save_selector_dump(url, dump_dir) ==
    LET file_path == file_path_of(url, dump_dir)
    IN  IF Len(PathName(file_path)) > FileNameLimit
        THEN Throw("OSError")
        ELSE Ret(file_path)

\* the URLs and directories tried
UrlAlphabet == {"a", ":", "/", "?", "&", "=", "."}
ShortUrls == SeqsUpTo(UrlAlphabet, MaxUrlLen)

UrlWithPort ==
    <<"h","t","t","p","s",":","/","/","e","x","a","m","p","l","e",".","c","o",
      "m",":","8","0","8","0","/","a">>

S_LongUrlBase ==
    <<"h","t","t","p","s",":","/","/","e",".","c","o","m","/">>

LongUrls == { S_LongUrlBase \o [i \in 1..k |-> "a"] : k \in (MaxUrlPad - 40)..MaxUrlPad }

\* Path(__file__).parent / "selector_dumps" (line 703)
DefaultDumpDir ==
    <<"/","r","e","p","o","/","s","c","r","i","p","t","s","/","s","e","l","e",
      "c","t","o","r","_","d","u","m","p","s">>

LongDumpDirs == { <<"/">> \o [i \in 1..m |-> "d"] : m \in (MaxDirPad - 10)..MaxDirPad }

InitSave ==
    /\ InitPy
    /\ InitJs
    /\ IdleButSave
    /\ \/ /\ saveUrl \in ShortUrls \cup {TargetUrl, UrlWithPort}
          /\ dumpDir = DefaultDumpDir
       \/ /\ saveUrl \in LongUrls
          /\ dumpDir \in LongDumpDirs \cup {DefaultDumpDir}
    /\ saveRes = Unset

SaveSelectorDump ==
    /\ saveRes = Unset
    /\ saveRes' = save_selector_dump(saveUrl, dumpDir)
    /\ UNCHANGED <<saveUrl, dumpDir>>
    /\ UNCHANGED pyVars
    /\ UNCHANGED jsVars
    /\ UNCHANGED saveFrame

NextSave == SaveSelectorDump

SpecSave == InitSave /\ [][NextSave]_vars

\* the stem of a file name: the name without its ".json"
StemOf(name) == SubSeq(name, 1, Len(name) - Len(S_json))

\* C14: for every URL given to save_selector_dump (https://example.com/a?b=c
\* among them) the stem of the file name has none of the characters ":", "/",
\* "?", "=", ".", "&".
C14_StemSanitized ==
    (saveRes # Unset /\ ~saveRes.thrown) =>
        \A i \in 1..Len(StemOf(PathName(saveRes.val))) :
            StemOf(PathName(saveRes.val))[i] \notin {":", "/", "?", "=", ".", "&"}

\* C15: for every length of the URL and of the directory path, the file name
\* (with its .json) has at most 255 characters: a longer name is cut, and the
\* call does not raise.
C15_FileNameFits ==
    saveRes # Unset =>
        /\ ~saveRes.thrown
        /\ Len(PathName(saveRes.val)) <= FileNameLimit

-----------------------------------------------------------------------------
(* The script run again and again on one document that does not change.    *)

\* runs of the script on the document
MaxRuns == 3
\* elements of the document
MaxRerunNodes == 4

InitRerun ==
    /\ pc = "script"
    /\ connected = TRUE
    /\ tabOpen = TRUE
    /\ exc = "none"
    /\ excMsg = <<>>
    /\ excCause = "none"
    /\ root = NoTree
    /\ total = -1
    /\ dump = NoDump
    /\ \/ \E n \in 1..MaxRerunNodes :
             \E p \in Shapes(n), t \in [2..n -> Tags] : dom = PlainDom(n, p, t)
       \/ \E n \in 2..MaxMixedNodes - 1 :
             \E p \in Shapes(n) : \E k \in MixedKinds(n, p) : dom = MixedDom(n, p, k)
       \/ dom = ExampleDom
       \/ dom = RootlessDom
    /\ globalIndex = 0
    /\ stack = <<>>
    /\ out = <<>>
    /\ prevTree = NoTree
    /\ runs = 0
    /\ IdleButRun

\* page.evaluate(JS_COLLECT_SELECTOR_TREE): the script starts (lines 531, 583)
StartScript ==
    /\ pc = "script"
    /\ runs < MaxRuns
    /\ globalIndex' = LetGlobalIndex(globalIndex)
    /\ stack' = <<>>
    /\ out' = <<>>
    /\ pc' = "walk"
    /\ UNCHANGED <<connected, tabOpen, exc, excMsg, excCause, root, total, dump, dom>>
    /\ UNCHANGED runVars
    /\ UNCHANGED runFrame

\* the script returns its tree to the caller of page.evaluate (line 584)
EndScript ==
    /\ pc = "built"
    /\ prevTree' = ScriptResult(out)
    /\ runs' = runs + 1
    /\ pc' = "script"
    /\ UNCHANGED <<connected, tabOpen, exc, excMsg, excCause, root, total, dump>>
    /\ UNCHANGED jsVars
    /\ UNCHANGED runFrame

NextRerun ==
    \/ StartScript
    \/ WalkEnter
    \/ WalkReturn
    \/ EndScript

SpecRerun == InitRerun /\ [][NextRerun]_vars

\* C16: the walk is restartable: a later run of the collection on the same
\* unchanged document returns a tree equal to the one of the run before, its
\* indices start at 0 again, and nothing of the run before carries over.
C16_Restartable ==
    (pc = "built" /\ runs >= 1) =>
        /\ ScriptResult(out) = prevTree
        /\ 1 \in DOMAIN out => out[1].index = 0
        /\ { out[e].index : e \in DOMAIN out } = 0..(Cardinality(ElementsOf(dom)) - 1)

C16_Witness ==
    /\ pc = "built"
    /\ runs = 2
    /\ dom = ExampleDom
    /\ prevTree # NoTree
    /\ out[5].index = 4

-----------------------------------------------------------------------------
(* Captures running at the same time: each one is a call of page.evaluate  *)
(* (line 635) that runs the script in its page.  A page runs one script at *)
(* a time, from start to end; scripts of different pages interleave.       *)

\* captures at a time
MaxCaptures == 2
\* elements of the document of a page
MaxCapNodes == 2

Caps == 1..MaxCaptures
Pages == 1..MaxCaptures

\* the documents of the pages
CapDoc(n, p) == PlainDom(n, p, [e \in 2..n |-> S_DIV])
CapDocs == UNION { { CapDoc(n, p) : p \in Shapes(n) } : n \in 1..MaxCapNodes }

\* (variant: one counter for all the runs of the script)
SharedCounter(c) == 1

\* let globalIndex (line 531) is local to the function the script is: each run
\* of the script, so each capture c, has a counter of its own
CounterOf(c) == c

InitConc ==
    /\ InitPy
    /\ InitJs
    /\ IdleButCap
    /\ capPage \in { f \in [Caps -> Pages] :
                       /\ f[1] = 1
                       /\ \A c \in Caps \ {1} : \E b \in 1..(c - 1) : f[c] <= f[b] + 1 }
    /\ pageDom \in { g \in [Pages -> CapDocs] :
                       \A p \in Pages : (\A c \in Caps : capPage[c] # p) => g[p] = CapDoc(1, <<0>>) }
    /\ capPc = [c \in Caps |-> "evaluate"]
    /\ capIndex = [c \in Caps |-> 0]
    /\ capStack = [c \in Caps |-> <<>>]
    /\ capOut = [c \in Caps |-> <<>>]

\* page.evaluate: the script of capture c starts, once no other script runs in
\* its page
CapStart(c) ==
    /\ capPc[c] = "evaluate"
    /\ \A b \in Caps \ {c} : capPage[b] = capPage[c] => capPc[b] # "walk"
    /\ capIndex' = [capIndex EXCEPT ![CounterOf(c)] = LetGlobalIndex(@)]
    /\ capStack' = [capStack EXCEPT ![c] = <<>>]
    /\ capOut' = [capOut EXCEPT ![c] = <<>>]
    /\ capPc' = [capPc EXCEPT ![c] = "walk"]
    /\ UNCHANGED <<capPage, pageDom>>
    /\ UNCHANGED pyVars
    /\ UNCHANGED jsVars
    /\ UNCHANGED capFrame

\* one call of walk() of capture c is entered
CapWalkEnter(c) ==
    /\ capPc[c] = "walk"
    /\ NextElOf(pageDom[capPage[c]], capStack[c]) # 0
    /\ LET r == walkEnter(pageDom[capPage[c]], capStack[c], capIndex[CounterOf(c)], capOut[c])
       IN  /\ capIndex' = [capIndex EXCEPT ![CounterOf(c)] = r.globalIndex]
           /\ capStack' = [capStack EXCEPT ![c] = r.stack]
           /\ capOut' = [capOut EXCEPT ![c] = r.out]
           /\ capPc' = [capPc EXCEPT ![c] = IF r.thrown THEN "raised"
                                            ELSE IF r.over THEN "returned" ELSE "walk"]
    /\ UNCHANGED <<capPage, pageDom>>
    /\ UNCHANGED pyVars
    /\ UNCHANGED jsVars
    /\ UNCHANGED capFrame

\* one call of walk() of capture c returns
CapWalkReturn(c) ==
    /\ capPc[c] = "walk"
    /\ capStack[c] # <<>>
    /\ NextElOf(pageDom[capPage[c]], capStack[c]) = 0
    /\ LET r == walkReturn(capStack[c], capOut[c])
       IN  /\ capStack' = [capStack EXCEPT ![c] = r.stack]
           /\ capOut' = [capOut EXCEPT ![c] = r.out]
           /\ capPc' = [capPc EXCEPT ![c] = IF r.over THEN "returned" ELSE "walk"]
    /\ UNCHANGED <<capPage, pageDom, capIndex>>
    /\ UNCHANGED pyVars
    /\ UNCHANGED jsVars
    /\ UNCHANGED capFrame

NextConc ==
    \E c \in Caps :
        \/ CapStart(c)
        \/ CapWalkEnter(c)
        \/ CapWalkReturn(c)

SpecConc == InitConc /\ [][NextConc]_vars

\* the descriptors of a walk of the document d that runs alone, from the call
\* stack st, the counter g and the descriptors o
RECURSIVE RunAlone(_, _, _, _)
RunAlone(d, st, g, o) ==
    IF NextElOf(d, st) # 0
    THEN LET r == walkEnter(d, st, g, o)
         IN  IF r.over THEN r.out ELSE RunAlone(d, r.stack, r.globalIndex, r.out)
    ELSE LET r == walkReturn(st, o)
         IN  IF r.over THEN r.out ELSE RunAlone(d, r.stack, g, r.out)

\* C17: captures whose steps interleave in any order, in the same page or in
\* different pages, do not interact: the indices a capture has given out are
\* always 0..k-1 without gaps, and the tree of a capture that has ended is the
\* one it would have built alone, with the indices 0..n-1 of its own document.
C17_CapturesIndependent ==
    \A c \in Caps :
        /\ capPc[c] \in {"walk", "returned"} =>
             { capOut[c][e].index : e \in DOMAIN capOut[c] } =
                 0..(Cardinality(DOMAIN capOut[c]) - 1)
        /\ capPc[c] = "returned" =>
             /\ capOut[c] = RunAlone(pageDom[capPage[c]], <<>>, 0, <<>>)
             /\ { capOut[c][e].index : e \in DOMAIN capOut[c] } =
                    0..(pageDom[capPage[c]].n - 1)

C17_Witness ==
    /\ capPage[1] # capPage[2]
    /\ capPc[1] = "walk"
    /\ capPc[2] = "walk"
    /\ Cardinality(DOMAIN capOut[1]) = 2
    /\ Cardinality(DOMAIN capOut[2]) = 1
    /\ capIndex[1] = 2
    /\ capIndex[2] = 1

-----------------------------------------------------------------------------
(* Browser (core/browser.py): connect, disconnect and the async context    *)
(* manager, one action per await.                                          *)

\* calls of disconnect on one Browser
MaxDisconnects == 2

\* an exception: its type, str() and the type of its __cause__
Exc(type, msg, cause) == [type |-> type, msg |-> msg, cause |-> cause]
NoExc == Exc("none", <<>>, "none")

S_OutOfRange ==
    <<"o","u","t"," ","o","f"," ","r","a","n","g","e">>

\* "{what} index {index} out of range (0-{n-1})" (window.py line 53)
OutOfRangeMsg(what, index, n) ==
    what \o <<" ","i","n","d","e","x"," ">> \o IntToString(index) \o <<" ">>
    \o S_OutOfRange \o <<" ","(","0","-">> \o IntToString(n - 1) \o <<")">>

\* str() of the IndexError of a list
ListIndexMsg ==
    <<"l","i","s","t"," ","i","n","d","e","x"," ","o","u","t"," ","o","f"," ",
      "r","a","n","g","e">>

\* lst[i] of Python: a negative i counts from the end
PyItem(lst, i) ==
    IF 0 <= i /\ i < Len(lst) THEN Ret(lst[i + 1])
    ELSE IF i < 0 /\ 0 - i <= Len(lst) THEN Ret(lst[Len(lst) + i + 1])
    ELSE Throw(Exc("IndexError", ListIndexMsg, "none"))

\* str() of the ValidationError of BrowserConfig for a port out of range
PortErrorMsg ==
    <<"1"," ","v","a","l","i","d","a","t","i","o","n"," ","e","r","r","o","r",
      " ","f","o","r"," ","B","r","o","w","s","e","r","C","o","n","f","i","g",
      " ","p","o","r","t">>

\* str() of the exception the body of an async with raises
BodyErrorMsg ==
    <<"b","o","d","y"," ","f","a","i","l","e","d">>

\* the ports tried, and the driver calls that may raise
ProbePorts == {PortMin - 1, PortMin, DefaultPort, PortMax, PortMax + 1}
DriverCalls == {"start", "connect_over_cdp", "close", "stop"}

\* Browser.is_connected (lines 38-41)
is_connected == b_connected /\ b_browser

\* (variant: the handle is cleared in the try body, after close() or stop())
HandleAfterNoFinally(raised) == raised

\* lines 74-79 and 82-87, try / except Exception: pass / finally: the handle is
\* set to None whether the driver call raised or not
HandleAfter(raised) == FALSE

\* contexts of the driver's browser
MaxContexts == 2

AllContexts == [k \in 1..MaxContexts |-> 200 + k]

S_Window == <<"W","i","n","d","o","w">>

\* "Browser not connected" (lines 94, 105)
NotConnectedMsg ==
    <<"B","r","o","w","s","e","r"," ","n","o","t"," ","c","o","n","n","e","c",
      "t","e","d">>

\* "Failed to get window at index {index}: {e}" (line 115)
GetWindowErrorMsg(index, e) ==
    <<"F","a","i","l","e","d"," ","t","o"," ","g","e","t"," ","w","i","n","d",
      "o","w"," ","a","t"," ","i","n","d","e","x"," ">>
    \o IntToString(index) \o <<":", " ">> \o e

\* str() of the AttributeError of None.contexts
NoneContextsMsg ==
    <<"'","N","o","n","e","T","y","p","e","'"," ","o","b","j","e","c","t"," ",
      "h","a","s"," ","n","o"," ","a","t","t","r","i","b","u","t","e"," ","'",
      "c","o","n","t","e","x","t","s","'">>

\* Window(browser=self, context=ctx) (window.py lines 24-28)
Window(browser, context) == [browser |-> browser, context |-> context]

\* (variant: the contexts are read without asking is_connected first; they are
\* read from self._browser, which is None once disconnected)
get_window_unchecked(conn, ctxs, index) ==
    IF ~conn
    THEN Throw(Exc("WindowError", GetWindowErrorMsg(index, NoneContextsMsg),
                   "AttributeError"))
    ELSE IF index < 0 \/ index >= Len(ctxs)
    THEN Throw(Exc("WindowError", OutOfRangeMsg(S_Window, index, Len(ctxs)), "IndexError"))
    ELSE LET item == PyItem(ctxs, index)
         IN  IF item.thrown THEN Throw(Exc("WindowError", item.err.msg, "IndexError"))
             ELSE Ret(Window("self", item.val))

\* Browser.get_window (lines 102-115) with is_connected = conn and the contexts
\* ctxs: ConnectionError unless connected; IndexError becomes WindowError
get_window(conn, ctxs, index) ==
    IF ~conn
    THEN Throw(Exc("ConnectionError", NotConnectedMsg, "none"))
    ELSE IF index < 0 \/ index >= Len(ctxs)
    THEN Throw(Exc("WindowError", OutOfRangeMsg(S_Window, index, Len(ctxs)), "IndexError"))
    ELSE LET item == PyItem(ctxs, index)
         IN  IF item.thrown THEN Throw(Exc("WindowError", item.err.msg, "IndexError"))
             ELSE Ret(Window("self", item.val))

\* Browser.get_windows (lines 91-100)
get_windows(conn, ctxs) ==
    IF ~conn
    THEN Throw(Exc("ConnectionError", NotConnectedMsg, "none"))
    ELSE Ret([k \in 1..Len(ctxs) |-> Window("self", ctxs[k])])

InitBrowser ==
    /\ InitPy
    /\ InitJs
    /\ IdleButBr
    /\ bpc = "connect"
    /\ port \in ProbePorts
    /\ faults \in SUBSET DriverCalls
    /\ b_playwright = FALSE
    /\ b_browser = FALSE
    /\ b_connected = FALSE
    /\ closeCalls = 0
    /\ stopCalls = 0
    /\ brExc = NoExc
    /\ brRet = FALSE
    /\ via = "none"
    /\ disconnects = 0
    /\ contexts \in { SubSeq(AllContexts, 1, k) : k \in 0..MaxContexts }
    /\ winRes = Unset

\* Browser.connect, lines 51-58: the configuration is validated and the Browser
\* made outside the try block; then await async_playwright().start(), whose
\* failure is handled at lines 66-69 with no driver to stop
BrStart ==
    /\ bpc = "connect"
    /\ IF port < PortMin \/ port > PortMax
       THEN /\ brExc' = Exc("ValidationError", PortErrorMsg, "none")
            /\ bpc' = "failed"
            /\ UNCHANGED b_playwright
       ELSE IF "start" \in faults
       THEN /\ brExc' = Exc("ConnectionError",
                            FailedToConnectMsg(endpoint_url(S_localhost, port), DriverMsg),
                            "PlaywrightError")
            /\ bpc' = "failed"
            /\ UNCHANGED b_playwright
       ELSE /\ b_playwright' = TRUE
            /\ bpc' = "connect_over_cdp"
            /\ UNCHANGED brExc
    /\ UNCHANGED <<port, faults, b_browser, b_connected, closeCalls, stopCalls, brRet,
                   via, disconnects>>
    /\ UNCHANGED pyVars
    /\ UNCHANGED jsVars
    /\ UNCHANGED <<contexts, winRes>>
    /\ UNCHANGED brFrame

\* lines 61-65: await connect_over_cdp(endpoint_url); on success the Browser is
\* returned; on failure the handler finds the driver started and awaits its
\* stop() (lines 66-68)
BrConnectOverCdp ==
    /\ bpc = "connect_over_cdp"
    /\ IF "connect_over_cdp" \in faults
       THEN /\ brExc' = Exc("PlaywrightError", DriverMsg, "none")
            /\ bpc' = "except"
            /\ UNCHANGED <<b_browser, b_connected, brRet>>
       ELSE /\ b_browser' = TRUE
            /\ b_connected' = TRUE
            /\ brRet' = TRUE
            /\ bpc' = "connected"
            /\ UNCHANGED brExc
    /\ UNCHANGED <<port, faults, b_playwright, closeCalls, stopCalls, via, disconnects>>
    /\ UNCHANGED pyVars
    /\ UNCHANGED jsVars
    /\ UNCHANGED <<contexts, winRes>>
    /\ UNCHANGED brFrame

\* lines 68-69: await browser._playwright.stop() inside the except clause; when
\* it returns, ConnectionError is raised from e; when it raises, its exception
\* leaves connect instead
BrExceptStop ==
    /\ bpc = "except"
    /\ stopCalls' = stopCalls + 1
    /\ brExc' = IF "stop" \in faults
                THEN Exc("PlaywrightError", DriverMsg, "none")
                ELSE Exc("ConnectionError",
                         FailedToConnectMsg(endpoint_url(S_localhost, port), brExc.msg),
                         brExc.type)
    /\ bpc' = "failed"
    /\ UNCHANGED <<port, faults, b_playwright, b_browser, b_connected, closeCalls, brRet,
                   via, disconnects>>
    /\ UNCHANGED pyVars
    /\ UNCHANGED jsVars
    /\ UNCHANGED <<contexts, winRes>>
    /\ UNCHANGED brFrame

\* the caller calls browser.disconnect() (line 71), the first time or again
BrDisconnect ==
    /\ bpc \in {"connected", "disconnected"}
    /\ disconnects < MaxDisconnects
    /\ via' = "direct"
    /\ bpc' = "close"
    /\ UNCHANGED <<port, faults, b_playwright, b_browser, b_connected, closeCalls,
                   stopCalls, brExc, brRet, disconnects>>
    /\ UNCHANGED pyVars
    /\ UNCHANGED jsVars
    /\ UNCHANGED <<contexts, winRes>>
    /\ UNCHANGED brFrame

\* async with browser: __aenter__ returns the Browser (lines 117-119)
BrEnter ==
    /\ bpc = "connected"
    /\ via' = "with"
    /\ bpc' = "body"
    /\ UNCHANGED <<port, faults, b_playwright, b_browser, b_connected, closeCalls,
                   stopCalls, brExc, brRet, disconnects>>
    /\ UNCHANGED pyVars
    /\ UNCHANGED jsVars
    /\ UNCHANGED <<contexts, winRes>>
    /\ UNCHANGED brFrame

\* the body of the async with ends, or raises; either way __aexit__ awaits
\* disconnect() (lines 121-123) and returns None, so an exception goes on
BrBody ==
    /\ bpc = "body"
    /\ \/ UNCHANGED brExc
       \/ brExc' = Exc("BodyError", BodyErrorMsg, "none")
    /\ bpc' = "close"
    /\ UNCHANGED <<port, faults, b_playwright, b_browser, b_connected, closeCalls,
                   stopCalls, brRet, via, disconnects>>
    /\ UNCHANGED pyVars
    /\ UNCHANGED jsVars
    /\ UNCHANGED <<contexts, winRes>>
    /\ UNCHANGED brFrame

\* disconnect, lines 73-79: if self._browser: await close(), errors ignored
BrClose ==
    /\ bpc = "close"
    /\ IF b_browser
       THEN /\ closeCalls' = closeCalls + 1
            /\ b_browser' = HandleAfter("close" \in faults)
       ELSE UNCHANGED <<closeCalls, b_browser>>
    /\ bpc' = "stop"
    /\ UNCHANGED <<port, faults, b_playwright, b_connected, stopCalls, brExc, brRet, via,
                   disconnects>>
    /\ UNCHANGED pyVars
    /\ UNCHANGED jsVars
    /\ UNCHANGED <<contexts, winRes>>
    /\ UNCHANGED brFrame

\* disconnect, lines 81-89: if self._playwright: await stop(), errors ignored;
\* self._connected = False; disconnect returns
BrStop ==
    /\ bpc = "stop"
    /\ IF b_playwright
       THEN /\ stopCalls' = stopCalls + 1
            /\ b_playwright' = HandleAfter("stop" \in faults)
       ELSE UNCHANGED <<stopCalls, b_playwright>>
    /\ b_connected' = FALSE
    /\ disconnects' = disconnects + 1
    /\ bpc' = "disconnected"
    /\ UNCHANGED <<port, faults, b_browser, closeCalls, brExc, brRet, via>>
    /\ UNCHANGED pyVars
    /\ UNCHANGED jsVars
    /\ UNCHANGED <<contexts, winRes>>
    /\ UNCHANGED brFrame

\* await browser.get_window(index) on the Browser connect returned, at any time
\* after that: before, during or after disconnect
BrGetWindow ==
    /\ brRet
    /\ bpc \in {"connected", "body", "close", "stop", "disconnected"}
    /\ \E index \in (0 - 1)..(MaxContexts + 1) :
          winRes' = [op |-> "get_window", index |-> index,
                     res |-> get_window(is_connected, contexts, index)]
    /\ UNCHANGED <<bpc, port, faults, b_playwright, b_browser, b_connected, closeCalls,
                   stopCalls, brExc, brRet, via, disconnects, contexts>>
    /\ UNCHANGED pyVars
    /\ UNCHANGED jsVars
    /\ UNCHANGED brFrame

\* await browser.get_windows(), likewise
BrGetWindows ==
    /\ brRet
    /\ bpc \in {"connected", "body", "close", "stop", "disconnected"}
    /\ winRes' = [op |-> "get_windows", res |-> get_windows(is_connected, contexts)]
    /\ UNCHANGED <<bpc, port, faults, b_playwright, b_browser, b_connected, closeCalls,
                   stopCalls, brExc, brRet, via, disconnects, contexts>>
    /\ UNCHANGED pyVars
    /\ UNCHANGED jsVars
    /\ UNCHANGED brFrame

NextBrowser ==
    \/ BrStart
    \/ BrConnectOverCdp
    \/ BrExceptStop
    \/ BrDisconnect
    \/ BrEnter
    \/ BrBody
    \/ BrClose
    \/ BrStop
    \/ BrGetWindow
    \/ BrGetWindows

SpecBrowser == InitBrowser /\ [][NextBrowser]_vars

\* C18: after Browser.disconnect() has returned, is_connected is false, the
\* browser and playwright handles are cleared, and close() and stop() were each
\* awaited exactly once - for a direct call, for the exit of async with (also
\* when the body raised), and when close() or stop() raise.
C18_DisconnectClears ==
    bpc = "disconnected" =>
        /\ ~is_connected
        /\ ~b_browser
        /\ ~b_playwright
        /\ closeCalls = 1
        /\ stopCalls = 1

C18_Witness ==
    /\ bpc = "disconnected"
    /\ via = "with"
    /\ brExc.type = "BodyError"
    /\ {"close", "stop"} \subseteq faults
    /\ disconnects = 1

\* C19: every failure of Browser.connect in starting the driver or connecting
\* to the CDP endpoint reaches the caller as ConnectionError with "Failed to
\* connect" in its message and no Browser returned; a Browser is returned only
\* with is_connected true.
C19_ConnectFailure ==
    /\ (bpc = "failed" /\ port >= PortMin /\ port <= PortMax) =>
         /\ brExc.type = "ConnectionError"
         /\ Contains(brExc.msg, S_FailedToConnect)
         /\ ~brRet
    /\ bpc = "connected" => (brRet /\ is_connected)
    /\ brRet => bpc \notin {"connect", "connect_over_cdp", "except", "failed"}

\* C28: when Browser.connect fails after the driver was started, stop() of the
\* driver was awaited before the error is raised, the Browser made is never
\* connected nor returned, and the error raised is the ConnectionError, also
\* when stop() itself fails.
C28_FailedConnectStopsDriver ==
    (bpc = "failed" /\ b_playwright) =>
        /\ stopCalls = 1
        /\ ~is_connected
        /\ ~brRet
        /\ brExc.type = "ConnectionError"
        /\ brExc.cause = "PlaywrightError"

\* C23: in every state reached by connect and disconnect calls, get_windows()
\* and get_window(i) raise ConnectionError unless the browser is connected;
\* while it is (connect has returned, disconnect was not called), get_window(i)
\* returns a Window on contexts[i] for 0 <= i < number of contexts and raises
\* WindowError for every other index, and get_windows() returns a Window for
\* each context; once disconnect() has returned no Window is handed out.
C23_WindowsOnlyWhileConnected ==
    [][winRes' # winRes =>
        LET r == winRes'.res
            index == IF winRes'.op = "get_window" THEN winRes'.index ELSE 0 - 1
            live == bpc \in {"connected", "body"} /\ disconnects = 0
            gone == bpc = "disconnected"
            inRange == 0 <= index /\ index < Len(contexts)
        IN  /\ (live /\ winRes'.op = "get_window" /\ inRange) =>
                  r = Ret(Window("self", contexts[index + 1]))
            /\ (live /\ winRes'.op = "get_window" /\ ~inRange) =>
                  (r.thrown /\ r.err.type = "WindowError")
            /\ (live /\ winRes'.op = "get_windows") =>
                  (~r.thrown /\ Len(r.val) = Len(contexts)
                   /\ \A k \in 1..Len(contexts) : r.val[k] = Window("self", contexts[k]))
            /\ gone => (r.thrown /\ r.err.type = "ConnectionError")
            /\ ~(b_connected /\ b_browser) => (r.thrown /\ r.err.type = "ConnectionError")
            /\ r.thrown => r.err.type \in {"ConnectionError", "WindowError"}
    ]_vars

C23_Witness ==
    /\ bpc = "disconnected"
    /\ disconnects = 1
    /\ Len(contexts) = 2
    /\ winRes # Unset
    /\ winRes.op = "get_window"
    /\ winRes.index = 1
    /\ winRes.res.thrown
    /\ winRes.res.err.type = "ConnectionError"

-----------------------------------------------------------------------------
(* Window (core/window.py): get_tab on the pages of the context.           *)

\* pages of a context
MaxPages == 3

\* the Playwright pages there are
PageIds == { 100 + k : k \in 1..MaxPages }

S_Tab == <<"T","a","b">>
\* Tab(window=self, playwright_page=page) (tab.py lines 25-30)
Tab(window, playwright_page) == [window |-> window, playwright_page |-> playwright_page]

\* (variant: only index >= len(pages) is refused)
get_tab_unguarded_below(lst, index) ==
    IF index >= Len(lst)
    THEN Throw(Exc("TabError", OutOfRangeMsg(S_Tab, index, Len(lst)), "IndexError"))
    ELSE LET item == PyItem(lst, index)
         IN  IF item.thrown THEN Throw(Exc("TabError", item.err.msg, "IndexError"))
             ELSE Ret(Tab("self", item.val))

\* Window.get_tab (lines 48-58) on the pages lst: IndexError becomes TabError
get_tab(lst, index) ==
    IF index < 0 \/ index >= Len(lst)
    THEN Throw(Exc("TabError", OutOfRangeMsg(S_Tab, index, Len(lst)), "IndexError"))
    ELSE LET item == PyItem(lst, index)
         IN  IF item.thrown THEN Throw(Exc("TabError", item.err.msg, "IndexError"))
             ELSE Ret(Tab("self", item.val))

InitWindow ==
    /\ InitPy
    /\ InitJs
    /\ IdleButWin
    /\ ctxPages \in { q \in SeqsUpTo(PageIds, MaxPages) :
                        \A i, j \in 1..Len(q) : i # j => q[i] # q[j] }
    /\ tabRes = Unset
    /\ activeRes = Unset
    /\ ntRes = Unset

\* await window.get_tab(index)
GetTab ==
    /\ \E index \in (0 - MaxPages - 1)..(MaxPages + 1) :
          tabRes' = [index |-> index, res |-> get_tab(ctxPages, index)]
    /\ UNCHANGED <<ctxPages, activeRes, ntRes>>
    /\ UNCHANGED pyVars
    /\ UNCHANGED jsVars
    /\ UNCHANGED winFrame

NextWindow == GetTab

SpecWindow == InitWindow /\ [][NextWindow]_vars

\* C20: get_tab(index) returns a Tab on the page of the context at that place
\* when 0 <= index < number of pages, and raises TabError with "out of range"
\* in its message for every other index, negative or too large; a Tab it
\* returns is never on a page outside the window.
C20_GetTab ==
    tabRes # Unset =>
        LET index == tabRes.index
            r == tabRes.res
            inRange == 0 <= index /\ index < Len(ctxPages)
        IN  /\ inRange => r = Ret(Tab("self", ctxPages[index + 1]))
            /\ ~inRange => /\ r.thrown
                           /\ r.err.type = "TabError"
                           /\ Contains(r.err.msg, S_OutOfRange)
            /\ ~r.thrown => \E k \in 1..Len(ctxPages) : ctxPages[k] = r.val.playwright_page

C20_Witness ==
    /\ tabRes # Unset
    /\ tabRes.index = -1
    /\ Len(ctxPages) = 2
    /\ tabRes.res.thrown
    /\ tabRes.res.err.msg = OutOfRangeMsg(S_Tab, -1, 2)

-----------------------------------------------------------------------------
(* Tab (core/tab.py): the Page wrapper of a Tab.  Objects are told apart by *)
(* their place in pageHeap; two Tabs may wrap one Playwright page (every    *)
(* Window.get_tab makes a new Tab).                                         *)

\* calls of get_page on one Tab
MaxGets == 2

\* the Tab objects
TabIds == {"tab1", "tab2"}

BlankUrl ==
    <<"a","b","o","u","t",":","b","l","a","n","k">>

\* "Failed to navigate tab to '{url}': {e}" (tab.py line 68)
NavigateErrorMsg(url, e) ==
    <<"F","a","i","l","e","d"," ","t","o"," ","n","a","v","i","g","a","t","e",
      " ","t","a","b"," ","t","o"," ","'">>
    \o url \o <<"'", ":", " ">> \o e

\* "Failed to activate tab: {e}" (tab.py line 75)
ActivateErrorMsg(e) ==
    <<"F","a","i","l","e","d"," ","t","o"," ","a","c","t","i","v","a","t","e",
      " ","t","a","b",":"," ">>
    \o e

\* Page(tab=..., playwright_page=...) (page.py lines 27-31)
Page(tab, playwright_page) == [tab |-> tab, playwright_page |-> playwright_page]

\* (variant: a new Page is made by every call)
get_page_unmemoised(self, wrapper, heap, pw) ==
    [wrapper |-> Len(heap) + 1,
     heap |-> Append(heap, Page(self, pw)),
     page |-> Len(heap) + 1]

\* Tab.get_page (lines 57-61) of the Tab self, whose _page_wrapper is wrapper
\* and _playwright_page is pw: the wrapper is made when there is none, and
\* returned
get_page(self, wrapper, heap, pw) ==
    IF wrapper = 0
    THEN [wrapper |-> Len(heap) + 1,
          heap |-> Append(heap, Page(self, pw)),
          page |-> Len(heap) + 1]
    ELSE [wrapper |-> wrapper, heap |-> heap, page |-> wrapper]

\* Tab.__init__ (lines 25-30) of tab1, then of tab2: each makes its Page
InitTab ==
    /\ InitPy
    /\ InitJs
    /\ IdleButTab
    /\ t_playwright_page \in [TabIds -> PageIds]
    /\ pageHeap = <<Page("tab1", t_playwright_page["tab1"]),
                    Page("tab2", t_playwright_page["tab2"])>>
    /\ t_page_wrapper = [t \in TabIds |-> IF t = "tab1" THEN 1 ELSE 2]
    /\ got = [t \in TabIds |-> <<>>]
    /\ pwUrl = [p \in PageIds |-> BlankUrl]
    /\ tabExc = NoExc

\* await tab.get_page()
TabGetPage(t) ==
    /\ Len(got[t]) < MaxGets
    /\ LET r == get_page(t, t_page_wrapper[t], pageHeap, t_playwright_page[t])
       IN  /\ t_page_wrapper' = [t_page_wrapper EXCEPT ![t] = r.wrapper]
           /\ pageHeap' = r.heap
           /\ got' = [got EXCEPT ![t] = Append(@, r.page)]
    /\ UNCHANGED <<t_playwright_page, pwUrl, tabExc>>
    /\ UNCHANGED pyVars
    /\ UNCHANGED jsVars
    /\ UNCHANGED tabFrame

\* await tab.navigate(url) (lines 63-68): goto of the driver, whose failure is
\* raised as NavigationError
TabNavigate(t) ==
    /\ \/ /\ pwUrl' = [pwUrl EXCEPT ![t_playwright_page[t]] = TargetUrl]
          /\ tabExc' = NoExc
       \/ /\ tabExc' = Exc("NavigationError", NavigateErrorMsg(TargetUrl, DriverMsg),
                           "PlaywrightError")
          /\ UNCHANGED pwUrl
    /\ UNCHANGED <<t_playwright_page, t_page_wrapper, pageHeap, got>>
    /\ UNCHANGED pyVars
    /\ UNCHANGED jsVars
    /\ UNCHANGED tabFrame

\* await tab.activate() (lines 70-75): bring_to_front of the driver, whose
\* failure is raised as TabError
TabActivate(t) ==
    /\ \/ tabExc' = NoExc
       \/ tabExc' = Exc("TabError", ActivateErrorMsg(DriverMsg), "PlaywrightError")
    /\ UNCHANGED <<t_playwright_page, t_page_wrapper, pageHeap, got, pwUrl>>
    /\ UNCHANGED pyVars
    /\ UNCHANGED jsVars
    /\ UNCHANGED tabFrame

NextTab ==
    \/ \E t \in TabIds : TabGetPage(t)
    \/ \E t \in TabIds : TabNavigate(t)
    \/ \E t \in TabIds : TabActivate(t)

SpecTab == InitTab /\ [][NextTab]_vars

\* C21: every call of get_page() on a Tab returns the same Page object, whose
\* tab is that Tab and whose playwright_page is the Tab's playwright_page, after
\* any sequence of navigate, activate and get_page calls on the tabs.
C21_SamePage ==
    \A t \in TabIds : \A i \in 1..Len(got[t]) :
        /\ got[t][i] = got[t][1]
        /\ got[t][i] \in 1..Len(pageHeap)
        /\ pageHeap[got[t][i]].tab = t
        /\ pageHeap[got[t][i]].playwright_page = t_playwright_page[t]

C21_Witness ==
    /\ Len(got["tab1"]) = MaxGets
    /\ Len(got["tab2"]) = MaxGets
    /\ t_playwright_page["tab1"] = t_playwright_page["tab2"]
    /\ got["tab1"][MaxGets] # got["tab2"][MaxGets]
    /\ pwUrl[t_playwright_page["tab1"]] = TargetUrl
    /\ tabExc.type = "TabError"

-----------------------------------------------------------------------------
(* The public operations of Page, Tab, Window and Selector that call the    *)
(* driver, and what reaches the caller when the driver call raises.  For    *)
(* each operation, the type its except Exception clause raises ("none" when *)
(* the operation has no try block).                                         *)

\* exceptions/errors.py: the subclasses of WebdanticError
WebdanticErrors ==
    {"ConnectionError", "NavigationError", "SelectorError", "TimeoutError",
     "WindowError", "TabError"}

\* what the driver raises
DriverErrors == {"PlaywrightError", "PlaywrightTimeoutError"}

\* core/page.py
PageOps ==
    {"goto", "reload", "go_back", "go_forward", "select", "select_all",
     "wait_for_selector", "wait_for_load_state", "wait_for_navigation", "evaluate",
     "title", "content", "screenshot", "pdf", "close"}

PageHandler(op) ==
    CASE op \in {"goto", "reload", "go_back", "go_forward", "evaluate", "screenshot",
                 "pdf", "close"} -> "NavigationError"
      [] op \in {"select", "select_all"} -> "SelectorError"
      [] op \in {"wait_for_selector", "wait_for_load_state", "wait_for_navigation"}
           -> "TimeoutError"
      [] op \in {"title", "content"} -> "none"

\* core/tab.py
TabOps == {"navigate", "activate", "close"}

TabHandler(op) ==
    CASE op = "navigate" -> "NavigationError"
      [] op \in {"activate", "close"} -> "TabError"

\* core/window.py
WindowOps == {"get_tabs", "get_tab", "get_active_tab", "new_tab", "close"}

WindowHandler(op) ==
    CASE op \in {"get_tabs", "get_tab", "get_active_tab", "close"} -> "WindowError"
      [] op = "new_tab" -> "TabError"

\* core/selector.py
SelectorOps ==
    {"click", "type", "fill", "text", "inner_text", "inner_html", "attribute",
     "is_visible", "is_hidden", "is_enabled", "is_disabled", "count", "wait_for",
     "children", "nth_child", "first_child"}

SelectorHandler(op) ==
    CASE op = "wait_for" -> "TimeoutError"
      [] op \in SelectorOps \ {"wait_for"} -> "SelectorError"

\* try: await <driver call> / except Exception as e: raise handler(...) from e;
\* without a try block the driver's exception goes on as it is
Outcome(cls, op, handler, raised) ==
    [cls |-> cls, op |-> op,
     raised |-> IF raised = "none" \/ handler = "none" THEN raised ELSE handler,
     cause |-> IF raised = "none" \/ handler = "none" THEN "none" ELSE raised]

InitOps ==
    /\ InitPy
    /\ InitJs
    /\ IdleButOp
    /\ opRes = Unset

CallPage ==
    /\ \E op \in PageOps, raised \in DriverErrors \cup {"none"} :
          opRes' = Outcome("Page", op, PageHandler(op), raised)
    /\ UNCHANGED pyVars
    /\ UNCHANGED jsVars
    /\ UNCHANGED opFrame

CallTab ==
    /\ \E op \in TabOps, raised \in DriverErrors \cup {"none"} :
          opRes' = Outcome("Tab", op, TabHandler(op), raised)
    /\ UNCHANGED pyVars
    /\ UNCHANGED jsVars
    /\ UNCHANGED opFrame

CallWindow ==
    /\ \E op \in WindowOps, raised \in DriverErrors \cup {"none"} :
          opRes' = Outcome("Window", op, WindowHandler(op), raised)
    /\ UNCHANGED pyVars
    /\ UNCHANGED jsVars
    /\ UNCHANGED opFrame

CallSelector ==
    /\ \E op \in SelectorOps, raised \in DriverErrors \cup {"none"} :
          opRes' = Outcome("Selector", op, SelectorHandler(op), raised)
    /\ UNCHANGED pyVars
    /\ UNCHANGED jsVars
    /\ UNCHANGED opFrame

NextOps ==
    \/ CallPage
    \/ CallTab
    \/ CallWindow
    \/ CallSelector

SpecOps == InitOps /\ [][NextOps]_vars

\* C22: every failure of the driver during a public Page, Tab, Window or
\* Selector operation reaches the caller as a subclass of WebdanticError,
\* never as the driver's own exception; Page.title() and Page.content()
\* included.
C22_DriverErrorsWrapped ==
    (opRes # Unset /\ opRes.raised # "none") =>
        /\ opRes.raised \in WebdanticErrors
        /\ opRes.cause \in DriverErrors

-----------------------------------------------------------------------------
(* Window (core/window.py): get_active_tab and new_tab, which opens pages   *)
(* in the context.                                                          *)

\* calls of new_tab that open a page
MaxNewTabs == 2

\* "No tabs available in window" (window.py line 66)
NoTabsMsg ==
    <<"N","o"," ","t","a","b","s"," ","a","v","a","i","l","a","b","l","e"," ",
      "i","n"," ","w","i","n","d","o","w">>

\* "Failed to get active tab: {e}" (line 70)
ActiveTabErrorMsg(e) ==
    <<"F","a","i","l","e","d"," ","t","o"," ","g","e","t"," ","a","c","t","i",
      "v","e"," ","t","a","b",":"," ">>
    \o e

\* Window.get_active_tab (lines 60-70) on the pages lst: the TabError of line 66
\* is raised inside the try block, whose except Exception clause (lines 69-70)
\* catches it and raises WindowError from it
get_active_tab(lst) ==
    IF lst = <<>>
    THEN Throw(Exc("WindowError", ActiveTabErrorMsg(NoTabsMsg), "TabError"))
    ELSE Ret(Tab("self", lst[1]))

\* if url: of Python, for None or a str
Truthy(url) == url # NULL /\ url # <<>>

\* the page context.new_page() opens: one that is not there yet
FreshPage(lst) ==
    CHOOSE p \in { 100 + k : k \in 1..(MaxPages + MaxNewTabs + 1) } :
        /\ \A k \in 1..Len(lst) : lst[k] # p
        /\ \A q \in { 100 + k : k \in 1..(MaxPages + MaxNewTabs + 1) } :
              (\A k \in 1..Len(lst) : lst[k] # q) => p <= q

\* Window.new_tab (lines 72-80) on the pages lst, with new_page() or goto()
\* of the driver raising or not: the pages of the context after the call, and
\* what the call returned or raised.  Nothing closes the page new_page opened.
new_tab(lst, url, newPageFails, gotoFails) ==
    IF newPageFails
    THEN [pages |-> lst,
          res |-> Throw(Exc("TabError", NewTabErrorMsg(DriverMsg), "PlaywrightError"))]
    ELSE LET page == FreshPage(lst)
         IN  IF Truthy(url) /\ gotoFails
             THEN [pages |-> Append(lst, page),
                   res |-> Throw(Exc("TabError", NewTabErrorMsg(DriverMsg),
                                     "PlaywrightError"))]
             ELSE [pages |-> Append(lst, page), res |-> Ret(Tab("self", page))]

InitWinTabs ==
    /\ InitPy
    /\ InitJs
    /\ IdleButWin
    /\ ctxPages \in { q \in SeqsUpTo(PageIds, MaxPages) :
                        \A i, j \in 1..Len(q) : i # j => q[i] # q[j] }
    /\ tabRes = Unset
    /\ activeRes = Unset
    /\ ntRes = Unset

\* await window.get_active_tab()
GetActiveTab ==
    /\ activeRes' = [pages |-> ctxPages, res |-> get_active_tab(ctxPages)]
    /\ UNCHANGED <<ctxPages, tabRes, ntRes>>
    /\ UNCHANGED pyVars
    /\ UNCHANGED jsVars
    /\ UNCHANGED winFrame

\* await window.new_tab(url)
WinNewTab ==
    /\ Len(ctxPages) < MaxPages + MaxNewTabs
    /\ \E url \in {NULL, <<>>, TargetUrl}, newPageFails \in BOOLEAN, gotoFails \in BOOLEAN :
          LET r == new_tab(ctxPages, url, newPageFails, gotoFails)
          IN  /\ ctxPages' = r.pages
              /\ ntRes' = [url |-> url, before |-> ctxPages, res |-> r.res]
    /\ UNCHANGED <<tabRes, activeRes>>
    /\ UNCHANGED pyVars
    /\ UNCHANGED jsVars
    /\ UNCHANGED winFrame

NextWinTabs ==
    \/ GetActiveTab
    \/ WinNewTab

SpecWinTabs == InitWinTabs /\ [][NextWinTabs]_vars

\* C24: get_active_tab() on a window that has no pages raises TabError ("No
\* tabs available in window"); on a window with at least one page it returns a
\* Tab on one of the window's pages.
C24_ActiveTab ==
    activeRes # Unset =>
        LET r == activeRes.res
        IN  IF activeRes.pages = <<>>
            THEN /\ r.thrown
                 /\ r.err.type = "TabError"
                 /\ Contains(r.err.msg, NoTabsMsg)
            ELSE /\ ~r.thrown
                 /\ r.val.window = "self"
                 /\ \E k \in 1..Len(activeRes.pages) :
                       r.val.playwright_page = activeRes.pages[k]

\* C27: when new_tab(url) fails (TabError, because new_page() or the first
\* navigation failed), the pages open in the window are those open before the
\* call: a page the call opened is not left open.
C27_FailedNewTabLeavesNoPage ==
    (ntRes # Unset /\ ntRes.res.thrown) =>
        /\ ntRes.res.err.type = "TabError"
        /\ ctxPages = ntRes.before

-----------------------------------------------------------------------------
(* JS_COLLECT_SELECTORS (lines 286-426), the flat collector, run on the     *)
(* document the tree collector has walked.  Its helper functions are those  *)
(* of JS_COLLECT_SELECTOR_TREE, line for line.                              *)

\* elements of the document
MaxFlatNodes == 4

\* the nodes from the root down to the node e of the document d
RECURSIVE PathTo(_, _)
PathTo(d, e) ==
    IF d.parent[e] = 0 THEN <<e>> ELSE Append(PathTo(d, d.parent[e]), e)

\* a comes before b in document order: a is an ancestor of b, or where their
\* paths part a is in the earlier child
Precedes(d, a, b) ==
    LET pa == PathTo(d, a)
        pb == PathTo(d, b)
        common == { k \in 1..Len(pa) : k <= Len(pb) /\ \A j \in 1..k : pa[j] = pb[j] }
        m == Cardinality(common)
    IN  IF a = b THEN FALSE
        ELSE IF m = Len(pa) THEN TRUE
        ELSE IF m = Len(pb) THEN FALSE
        ELSE pa[m + 1] < pb[m + 1]

\* (variant: the elements level by level)
querySelectorAllLevelOrder(d) ==
    LET E == { e \in 1..d.n : IsElement(d, e) }
    IN  [i \in 1..Cardinality(E) |->
           CHOOSE e \in E : Cardinality({ x \in E : x < e }) = i - 1]

\* document.querySelectorAll("*") (line 389): the elements of the document, in
\* document order
querySelectorAll(d) ==
    LET E == { e \in 1..d.n : IsElement(d, e) }
    IN  [i \in 1..Cardinality(E) |->
           CHOOSE e \in E : Cardinality({ x \in E : Precedes(d, x, e) }) = i - 1]

\* the object the map callback returns for el at index (lines 397-423)
FlatNodeOf(d, e, index) ==
    [index |-> index,
     tag |-> ToLowerCase(d.el[e].tagName),
     id |-> IF d.el[e].id # <<>> THEN d.el[e].id ELSE NULL,
     classes |-> d.el[e].classList,
     type |-> d.el[e].type,
     role |-> d.el[e].role,
     simple_selector |-> getSimpleSelector(d.el[e]),
     dom_path |-> getDomPath(d, e),
     bounding_client_rect |-> getBoundingRect(d.el[e]),
     is_clickable |-> isClickable(d.el[e]),
     is_visible |-> isVisible(d.el[e]).val]

\* the page holds a document; the tree collector has been started on it
InitFlat ==
    /\ pc = "walk"
    /\ connected = TRUE
    /\ tabOpen = TRUE
    /\ exc = "none"
    /\ excMsg = <<>>
    /\ excCause = "none"
    /\ root = NoTree
    /\ total = -1
    /\ dump = NoDump
    /\ \/ \E n \in 1..MaxFlatNodes :
             \E p \in Shapes(n), t \in [2..n -> Tags] : dom = PlainDom(n, p, t)
       \/ \E n \in 1..MaxFaultNodes :
             \E p \in Shapes(n), v \in [1..n -> Views] : dom = FaultDom(n, p, v)
       \/ \E n \in 2..MaxMixedNodes :
             \E p \in Shapes(n) : \E k \in MixedKinds(n, p) : dom = MixedDom(n, p, k)
       \/ dom = ExampleDom
       \/ dom = RootlessDom
    /\ globalIndex = 0
    /\ stack = <<>>
    /\ out = <<>>
    /\ flatPc = "idle"
    /\ flatList = <<>>
    /\ flatOut = <<>>
    /\ IdleButFlat

\* page.evaluate(JS_COLLECT_SELECTORS), once the tree collector is over: line 389
FlatStart ==
    /\ pc \in {"built", "finally"}
    /\ flatPc = "idle"
    /\ flatList' = querySelectorAll(dom)
    /\ flatPc' = IF querySelectorAll(dom) = <<>> THEN "done" ELSE "map"
    /\ UNCHANGED flatOut
    /\ UNCHANGED pyVars
    /\ UNCHANGED jsVars
    /\ UNCHANGED flatFrame

\* one call of the map callback (lines 390-424): isVisible may throw, which
\* ends the script
FlatMap ==
    /\ flatPc = "map"
    /\ LET index == Len(flatOut)
           e == flatList[index + 1]
       IN  IF isVisible(dom.el[e]).thrown
           THEN /\ flatPc' = "thrown"
                /\ UNCHANGED flatOut
           ELSE /\ flatOut' = Append(flatOut, FlatNodeOf(dom, e, index))
                /\ flatPc' = IF index + 1 = Len(flatList) THEN "done" ELSE "map"
    /\ UNCHANGED flatList
    /\ UNCHANGED pyVars
    /\ UNCHANGED jsVars
    /\ UNCHANGED flatFrame

NextFlat ==
    \/ WalkEnter
    \/ WalkReturn
    \/ FlatStart
    \/ FlatMap

SpecFlat == InitFlat /\ [][NextFlat]_vars

\* the tree t in pre-order: a node, then its children's subtrees in order
RECURSIVE FlattenTree(_)
RECURSIVE FlattenAll(_)
FlattenTree(t) == <<t>> \o FlattenAll(t.children)
FlattenAll(ts) == IF ts = <<>> THEN <<>> ELSE FlattenTree(Head(ts)) \o FlattenAll(Tail(ts))

\* what the claim compares of a descriptor
Compared(n) ==
    [index |-> n.index, tag |-> n.tag, simple_selector |-> n.simple_selector,
     dom_path |-> n.dom_path, is_clickable |-> n.is_clickable,
     is_visible |-> n.is_visible]

\* C29: the tree collector and the flat collector agree: for every document,
\* the tree returned by JS_COLLECT_SELECTOR_TREE, flattened in pre-order (a
\* null result flattens to nothing), is index by index the list returned by
\* JS_COLLECT_SELECTORS (same index, tag, simple_selector, dom_path,
\* is_clickable, is_visible), so the number of elements is the same under both;
\* and one of them throws exactly when the other does.
C29_CollectorsAgree ==
    (pc \in {"built", "finally"} /\ flatPc \in {"done", "thrown"}) =>
        /\ pc = "finally" <=> flatPc = "thrown"
        /\ pc = "built" =>
             LET tree == ScriptResult(out)
                 pre == IF tree = NoTree THEN <<>> ELSE FlattenTree(tree)
             IN  /\ Len(pre) = Len(flatOut)
                 /\ \A i \in 1..Len(pre) :
                       /\ Compared(pre[i]) = Compared(flatOut[i])
                       /\ flatOut[i].index = i - 1
                 /\ tree # NoTree => count_nodes(ElementNode(tree)) = Len(flatOut)

C29_Witness ==
    /\ pc = "built"
    /\ flatPc = "done"
    /\ dom.n = 4
    /\ dom.parent = <<0, 1, 1, 2>>
    /\ flatList = <<1, 2, 4, 3>>
    /\ Len(flatOut) = 4
    /\ out[4].index = 2

====
